---- MODULE Spec2Model ----
(***************************************************************************)
(* State-machine model of the pir8 on-chain game programs.                 *)
(*                                                                         *)
(* Two games live in the repository:                                       *)
(*   - the fleet game (PirateGame account): matchmaking.rs, gameplay.rs,   *)
(*     admin.rs of programs/pir8-game and the turn engine of pirate_lib.rs *)
(*   - the item-catalog game (Game account): make_move and                 *)
(*     execute_item_effect, in the modular files and in the lib.rs         *)
(*     monolith of contracts/pir8-game.                                    *)
(*                                                                         *)
(* An instruction handler is an operator from the account and the          *)
(* instruction inputs to a record [err, game].  A handler that returns     *)
(* Err aborts the transaction, so the account keeps its old value; the     *)
(* variable last records which instruction ran, what it returned and the   *)
(* status the game had before it.                                          *)
(***************************************************************************)
EXTENDS Integers, Sequences, FiniteSets, TLC

VARIABLES variant, clock, game, last

vars == <<variant, clock, game, last>>

(***************************************************************************)
(* Bounds of the model                                                     *)
(***************************************************************************)
\* seconds the clock may advance
MaxClock == 1
\* last turn at which the authority still resets a running game
MaxTurn == 2
\* turns played in the fleet_build, fleet_claim and fleet_combat profiles
BuildTurns == 4
ClaimTurns == 3
CombatTurns == 5
DominanceTurns == 9
CollectTurns == 6

(***************************************************************************)
(* Program constants                                                       *)
(***************************************************************************)
MAX_PLAYERS == 4
MIN_PLAYERS == 2
MAP_SIZE == 10
MAX_SHIPS_PER_PLAYER == 6
MAX_TURNS == 50
Epoch == 1700000003

ShipTypes == {"Sloop", "Frigate", "Galleon", "Flagship"}

SLOOP_COST == [gold |-> 500, crew |-> 10, cannons |-> 5, supplies |-> 20]
FRIGATE_COST == [gold |-> 1200, crew |-> 25, cannons |-> 15, supplies |-> 40]
GALLEON_COST == [gold |-> 2500, crew |-> 50, cannons |-> 30, supplies |-> 80]
FLAGSHIP_COST == [gold |-> 5000, crew |-> 100, cannons |-> 60, supplies |-> 150]

None == "None"

\* Pubkeys of the signers.  Pubkeys are only ever compared for equality.
Keys == {"k1", "k2", "k3", "k4"}
KeyOrder == <<"k1", "k2", "k3", "k4">>

(***************************************************************************)
(* Generic helpers                                                         *)
(***************************************************************************)
Abs(n) == IF n < 0 THEN -n ELSE n

Max2(a, b) == IF a >= b THEN a ELSE b

saturating_sub(a, b) == IF a >= b THEN a - b ELSE 0

\* u32 saturating_add; the ceiling 2^32 - 1 lies above every value the
\* bounded model reaches, so the clamp never engages here.
saturating_add(a, b) == a + b

RECURSIVE SumSeq(_)
SumSeq(s) == IF s = <<>> THEN 0 ELSE Head(s) + SumSeq(Tail(s))

\* position of the first element of s satisfying Test, 0 when there is none
FirstIndex(s, Test(_)) ==
    IF \E i \in 1..Len(s) : Test(s[i])
    THEN CHOOSE i \in 1..Len(s) : Test(s[i]) /\ \A j \in 1..(i - 1) : ~Test(s[j])
    ELSE 0

Retain(s, Keep(_)) == SelectSeq(s, Keep)

Ok(g) == [err |-> "Ok", game |-> g]
Err(e, g) == [err |-> e, game |-> g]

(***************************************************************************)
(* Strings built with format! and taken apart with split / parse           *)
(***************************************************************************)
DigitChars == <<"0", "1", "2", "3", "4", "5", "6", "7", "8", "9">>

\* decimal rendering of a natural number, as a sequence of characters
RECURSIVE ToDecimal(_)
ToDecimal(n) ==
    IF n < 10 THEN <<DigitChars[n + 1]>>
    ELSE ToDecimal(n \div 10) \o <<DigitChars[(n % 10) + 1]>>

\* str::parse::<u8>: decimal digits only, value at most 255; -1 for Err
RECURSIVE DigitsValue(_)
DigitsValue(cs) ==
    IF cs = <<>> THEN 0
    ELSE DigitsValue(SubSeq(cs, 1, Len(cs) - 1)) * 10
         + ((CHOOSE d \in 1..10 : DigitChars[d] = cs[Len(cs)]) - 1)

ParseU8(cs) ==
    IF cs = <<>> \/ Len(cs) > 3 \/ \E i \in 1..Len(cs) : \A d \in 1..10 : DigitChars[d] # cs[i]
    THEN -1
    ELSE IF DigitsValue(cs) > 255 THEN -1 ELSE DigitsValue(cs)

\* format!("{},{}", x, y)
FormatCoord(x, y) == ToDecimal(x) \o <<",">> \o ToDecimal(y)

\* coord_str.split(',').collect()
RECURSIVE SplitComma(_)
SplitComma(cs) ==
    LET k == FirstIndex(cs, LAMBDA c : c = ",")
    IN IF k = 0 THEN <<cs>>
       ELSE <<SubSeq(cs, 1, k - 1)>> \o SplitComma(SubSeq(cs, k + 1, Len(cs)))

\* format!("{}_{}", pubkey, unix_timestamp) and format!("{}_{}_{}", .., "frigate")
ShipId(pubkey, ts) == <<pubkey, "_", ts>>
FrigateId(pubkey, ts) == <<pubkey, "_", ts, "_", "frigate">>

(***************************************************************************)
(* Catalogs                                                                *)
(***************************************************************************)
get_ship_stats(ship_type) ==
    CASE ship_type = "Sloop" -> [health |-> 100, attack |-> 20, defense |-> 10, speed |-> 3]
      [] ship_type = "Frigate" -> [health |-> 200, attack |-> 40, defense |-> 25, speed |-> 2]
      [] ship_type = "Galleon" -> [health |-> 350, attack |-> 60, defense |-> 40, speed |-> 1]
      [] ship_type = "Flagship" -> [health |-> 500, attack |-> 80, defense |-> 60, speed |-> 1]

\* one price for every ship type
get_ship_costs_Flat(ship_type) == SLOOP_COST

get_ship_costs(ship_type) ==
    CASE ship_type = "Sloop" -> SLOOP_COST
      [] ship_type = "Frigate" -> FRIGATE_COST
      [] ship_type = "Galleon" -> GALLEON_COST
      [] ship_type = "Flagship" -> FLAGSHIP_COST

NoResources == [gold |-> 0, crew |-> 0, cannons |-> 0, supplies |-> 0]

\* a map whose cells yield nothing
get_territory_resources_None(x, y, territory_map) == NoResources

get_territory_resources(x, y, territory_map) ==
    LET index == (x * MAP_SIZE) + y
    IN IF index + 1 <= Len(territory_map)
       THEN CASE territory_map[index + 1].cell_type = "Island" ->
                    [gold |-> 0, crew |-> 0, cannons |-> 0, supplies |-> 3]
              [] territory_map[index + 1].cell_type = "Port" ->
                    [gold |-> 5, crew |-> 2, cannons |-> 0, supplies |-> 0]
              [] territory_map[index + 1].cell_type = "Treasure" ->
                    [gold |-> 10, crew |-> 0, cannons |-> 0, supplies |-> 0]
              [] OTHER -> NoResources
       ELSE NoResources

(***************************************************************************)
(* Map generation                                                          *)
(***************************************************************************)
\* (cell_seed * 1103515245 + 12345) % 100, computed on the residues mod 100
\* (the u64 product does not overflow for clock-sized seeds).
RandVal(cell_seed) == (((cell_seed % 100) * (1103515245 % 100)) + 12345) % 100

\* distance_from_center < r, with center = (MAP_SIZE - 1) / 2, compared on
\* the squares scaled by 4 (all values are exact in f32)
WithinRadius(x, y, twice_r) ==
    ((2 * x - (MAP_SIZE - 1)) * (2 * x - (MAP_SIZE - 1)))
    + ((2 * y - (MAP_SIZE - 1)) * (2 * y - (MAP_SIZE - 1))) < twice_r * twice_r

CellTypeAt(seed, x, y) ==
    LET rand_val == RandVal(seed + ((x * MAP_SIZE) + y))
        \* scale = MAP_SIZE / 5.0; 2 * 1.5 * scale and 2 * 2.5 * scale
        inner == (3 * MAP_SIZE) \div 5
        mid == MAP_SIZE
    IN IF WithinRadius(x, y, inner)
       THEN IF rand_val < 40 THEN "Treasure" ELSE IF rand_val < 70 THEN "Port" ELSE "Water"
       ELSE IF WithinRadius(x, y, mid)
       THEN IF rand_val < 20 THEN "Island" ELSE IF rand_val < 35 THEN "Port" ELSE "Water"
       ELSE IF rand_val < 10 THEN "Storm" ELSE IF rand_val < 15 THEN "Reef" ELSE "Water"

generate_strategic_map(seed) ==
    [i \in 1..(MAP_SIZE * MAP_SIZE) |->
        [cell_type |-> CellTypeAt(seed, (i - 1) \div MAP_SIZE, (i - 1) % MAP_SIZE),
         owner |-> None]]

(***************************************************************************)
(* PirateGame: turn engine (pirate_lib.rs)                                 *)
(***************************************************************************)
\* position (1-based) of the current player in players, 0 for None
get_current_player(g) ==
    IF g.current_player_index >= g.player_count
    THEN 0
    ELSE g.current_player_index + 1

\* index (1-based) of the first active player with this key, 0 for None
get_player_mut(g, player_key) ==
    FirstIndex(g.players, LAMBDA p : p.pubkey = player_key /\ p.is_active)

generate_random_weather(g, now) ==
    LET seed == (g.turn_number + now) % 4
    IN CASE seed = 0 -> "Calm"
         [] seed = 1 -> "TradeWinds"
         [] seed = 2 -> "Storm"
         [] OTHER -> "Fog"

\* the countdown alone, with no new weather drawn when it ends
update_weather_Expire(g, now) ==
    [g EXCEPT !.weather_duration = IF @ > 0 THEN @ - 1 ELSE @]

update_weather(g, now) ==
    LET d == IF g.weather_duration > 0 THEN g.weather_duration - 1 ELSE g.weather_duration
        g1 == [g EXCEPT !.weather_duration = d]
    IN IF d = 0
       THEN LET w == generate_random_weather(g1, now)
            IN [g1 EXCEPT !.weather_type = w,
                          !.weather_duration =
                              CASE w = "Calm" -> 2
                                [] w = "TradeWinds" -> 3
                                [] w = "Storm" -> 2
                                [] w = "Fog" -> 3]
       ELSE g1

\* advance_turn without the loop: the next player, active or not
SkipInactive_None(g, next_index, attempts) == next_index

\* the loop that skips inactive players
RECURSIVE SkipInactive(_, _, _)
SkipInactive(g, next_index, attempts) ==
    IF ~g.players[next_index + 1].is_active /\ attempts < g.player_count
    THEN SkipInactive(g, (next_index + 1) % g.player_count, attempts + 1)
    ELSE next_index

advance_turn(g, now) ==
    LET next_index == SkipInactive(g, (g.current_player_index + 1) % g.player_count, 0)
        g1 == [g EXCEPT !.current_player_index = next_index]
    IN IF next_index = 0
       THEN update_weather([g1 EXCEPT !.turn_number = g.turn_number + 1], now)
       ELSE g1

starting_positions ==
    << <<1, 1>>, <<2, 1>>, <<8, 1>>, <<9, 1>>, <<1, 8>>, <<1, 9>>, <<8, 8>>, <<9, 8>> >>

NewShip(id, ship_type, x, y, turn) ==
    [id |-> id,
     ship_type |-> ship_type,
     health |-> get_ship_stats(ship_type).health,
     max_health |-> get_ship_stats(ship_type).health,
     attack |-> get_ship_stats(ship_type).attack,
     defense |-> get_ship_stats(ship_type).defense,
     speed |-> get_ship_stats(ship_type).speed,
     position_x |-> x,
     position_y |-> y,
     last_action_turn |-> turn]

\* every active player i < player_count gets a sloop and a frigate; the
\* require! on base_idx cannot fail for player_count <= MAX_PLAYERS
deploy_starting_fleets(g, now) ==
    [g EXCEPT !.players =
        [i \in 1..Len(g.players) |->
            IF i <= g.player_count /\ g.players[i].is_active
            THEN LET base_idx == (i - 1) * 2
                     pos1 == starting_positions[base_idx + 1]
                     pos2 == starting_positions[base_idx + 2]
                 IN [g.players[i] EXCEPT !.ships =
                        @ \o <<NewShip(ShipId(g.players[i].pubkey, now), "Sloop",
                                       pos1[1], pos1[2], 0),
                               NewShip(FrigateId(g.players[i].pubkey, now), "Frigate",
                                       pos2[1], pos2[2], 0)>>]
            ELSE g.players[i]]]

(***************************************************************************)
(* PirateGame: matchmaking.rs and admin.rs                                 *)
(***************************************************************************)
create_game(authority) ==
    [authority |-> authority,
     status |-> "Waiting",
     player_count |-> 0,
     current_player_index |-> 0,
     turn_number |-> 0,
     winner |-> None,
     weather_type |-> "Calm",
     weather_duration |-> 2,
     players |-> <<>>,
     territory_map |-> <<>>]

NewPlayer(player_pubkey) ==
    [pubkey |-> player_pubkey,
     resources |-> [gold |-> 1000, crew |-> 50, cannons |-> 10, supplies |-> 100],
     ships |-> <<>>,
     controlled_territories |-> <<>>,
     total_score |-> 0,
     is_active |-> TRUE,
     scan_charges |-> 3,
     scanned_coordinates |-> <<>>]

\* Waiting -> Active: map from the clock, starting fleets, turn 1
Activate(g, now) ==
    LET seed == now
        g1 == [g EXCEPT !.territory_map = generate_strategic_map(seed)]
        g2 == deploy_starting_fleets(g1, now)
    IN [g2 EXCEPT !.status = "Active", !.turn_number = 1]

\* join_game without the tests of the status and of the signer
join_game_Anyone(g, player_pubkey, now) ==
    IF ~(g.player_count < MAX_PLAYERS) THEN Err("GameFull", g)
    ELSE Ok([g EXCEPT !.players = Append(@, NewPlayer(player_pubkey)),
                      !.player_count = @ + 1])

join_game(g, player_pubkey, now) ==
    IF g.status # "Waiting" THEN Err("GameNotJoinable", g)
    ELSE IF ~(g.player_count < MAX_PLAYERS) THEN Err("GameFull", g)
    ELSE IF \E i \in 1..Len(g.players) : g.players[i].pubkey = player_pubkey
    THEN Err("GameNotJoinable", g)
    ELSE LET g1 == [g EXCEPT !.players = Append(@, NewPlayer(player_pubkey)),
                             !.player_count = @ + 1]
         IN IF g1.player_count >= MAX_PLAYERS
            THEN Ok(Activate(g1, now))
            ELSE Ok(g1)

start_game(g, authority, now) ==
    IF authority # g.authority THEN Err("ConstraintHasOne", g)
    ELSE IF g.status # "Waiting" THEN Err("GameAlreadyStarted", g)
    ELSE IF ~(g.player_count >= MIN_PLAYERS) THEN Err("NotEnoughPlayers", g)
    ELSE Ok(Activate(g, now))

\* reset_game without players.clear()
reset_game_KeepPlayers(g, authority) ==
    IF authority # g.authority THEN Err("ConstraintHasOne", g)
    ELSE Ok([g EXCEPT !.status = "Waiting",
                      !.player_count = 0,
                      !.current_player_index = 0,
                      !.turn_number = 0,
                      !.winner = None,
                      !.territory_map = <<>>])

reset_game(g, authority) ==
    IF authority # g.authority THEN Err("ConstraintHasOne", g)
    ELSE Ok([g EXCEPT !.status = "Waiting",
                      !.player_count = 0,
                      !.current_player_index = 0,
                      !.turn_number = 0,
                      !.winner = None,
                      !.players = <<>>,
                      !.territory_map = <<>>])

(***************************************************************************)
(* Scan bit-packing (state/map.rs)                                         *)
(***************************************************************************)
Pow2(n) == 2 ^ n

BitSet(byte, bit_idx) == (byte \div Pow2(bit_idx)) % 2 = 1

is_coordinate_scanned(scanned, x, y) ==
    IF x >= MAP_SIZE \/ y >= MAP_SIZE THEN FALSE
    ELSE LET index == (x * MAP_SIZE) + y
             byte_idx == index \div 8
             bit_idx == index % 8
         IN IF byte_idx >= Len(scanned) THEN FALSE
            ELSE BitSet(scanned[byte_idx + 1], bit_idx)

\* the caller has already rejected x, y outside the map
mark_coordinate_scanned(scanned, x, y) ==
    LET index == (x * MAP_SIZE) + y
        byte_idx == index \div 8
        bit_idx == index % 8
        grown == [i \in 1..Max2(Len(scanned), byte_idx + 1) |->
                     IF i <= Len(scanned) THEN scanned[i] ELSE 0]
    IN [grown EXCEPT ![byte_idx + 1] =
           IF BitSet(@, bit_idx) THEN @ ELSE @ + Pow2(bit_idx)]

(***************************************************************************)
(* PirateGame: gameplay.rs                                                 *)
(***************************************************************************)
\* the turn check alone
TurnGuard_NoStatus(g, player_pubkey) ==
    IF get_current_player(g) = 0 THEN "NotPlayerTurn"
    ELSE IF g.players[get_current_player(g)].pubkey # player_pubkey THEN "NotPlayerTurn"
    ELSE "Ok"

\* the two checks every gameplay handler opens with; "Ok" when both pass
TurnGuard(g, player_pubkey) ==
    IF g.status # "Active" THEN "GameNotActive"
    ELSE IF get_current_player(g) = 0 THEN "NotPlayerTurn"
    ELSE IF g.players[get_current_player(g)].pubkey # player_pubkey THEN "NotPlayerTurn"
    ELSE "Ok"

\* players.iter().find(|p| p.pubkey == player_pubkey), 0 for None
FindPlayer(g, player_pubkey) ==
    FirstIndex(g.players, LAMBDA p : p.pubkey = player_pubkey)

\* a lookup that takes the first ship of the fleet whatever its id
FindShip_First(ships, ship_id) == IF ships = <<>> THEN 0 ELSE 1

\* ships.iter().find(|s| s.id == ship_id), 0 for None
FindShip(ships, ship_id) ==
    FirstIndex(ships, LAMBDA s : s.id = ship_id)

AllShips(g) ==
    {<<i, j>> \in (1..Len(g.players)) \X (1..MAX_SHIPS_PER_PLAYER) :
        j <= Len(g.players[i].ships)}

\* the larger of the two offsets instead of their sum
Distance_Chebyshev(x1, y1, x2, y2) == Max2(Abs(x1 - x2), Abs(y1 - y2))

Distance(x1, y1, x2, y2) == Abs(x1 - x2) + Abs(y1 - y2)

\* decision_time_ms is None in every modelled call
move_ship(g, player_pubkey, ship_id, to_x, to_y, now) ==
    IF TurnGuard(g, player_pubkey) # "Ok" THEN Err(TurnGuard(g, player_pubkey), g)
    ELSE IF ~(to_x < MAP_SIZE /\ to_y < MAP_SIZE) THEN Err("InvalidCoordinate", g)
    ELSE LET pi == FindPlayer(g, player_pubkey)
         IN IF pi = 0 THEN Err("NotPlayerTurn", g)
            ELSE LET si == FindShip(g.players[pi].ships, ship_id)
                 IN IF si = 0 THEN Err("ShipNotFound", g)
                    ELSE LET ship == g.players[pi].ships[si]
                             distance == Distance(to_x, to_y, ship.position_x, ship.position_y)
                         IN IF ~(distance <= ship.speed) THEN Err("InvalidCoordinate", g)
                            ELSE IF \E ij \in AllShips(g) :
                                       LET s == g.players[ij[1]].ships[ij[2]]
                                       IN s.position_x = to_x /\ s.position_y = to_y
                                          /\ s.id # ship_id
                            THEN Err("PositionOccupied", g)
                            ELSE IF get_player_mut(g, player_pubkey) = 0
                            THEN Err("NotPlayerTurn", g)
                            ELSE LET mi == get_player_mut(g, player_pubkey)
                                     mj == FindShip(g.players[mi].ships, ship_id)
                                     g1 == [g EXCEPT !.players[mi].ships[mj] =
                                               [@ EXCEPT !.position_x = to_x,
                                                         !.position_y = to_y,
                                                         !.last_action_turn = g.turn_number]]
                                 IN Ok(advance_turn(g1, now))

\* damage without the floor of 1
DamageShip_NoFloor(ship, attacker_attack) ==
    LET damage_dealt == saturating_sub(attacker_attack, ship.defense)
    IN IF ship.health <= damage_dealt
       THEN [ship EXCEPT !.health = 0]
       ELSE [ship EXCEPT !.health = @ - damage_dealt]

\* damage to the first ship carrying target_ship_id in one player's fleet
DamageShip(ship, attacker_attack) ==
    LET damage_dealt == Max2(saturating_sub(attacker_attack, ship.defense), 1)
    IN IF ship.health <= damage_dealt
       THEN [ship EXCEPT !.health = 0]
       ELSE [ship EXCEPT !.health = @ - damage_dealt]

\* the loop over game.players.iter_mut(): acc = [err, players, found, destroyed]
RECURSIVE AttackLoop(_, _, _, _, _, _)
AttackLoop(acc, i, player_pubkey, target_ship_id, attacker_pos, attacker_attack) ==
    IF i > Len(acc.players) \/ acc.err # "Ok" THEN acc
    ELSE IF acc.players[i].pubkey = player_pubkey
    THEN AttackLoop(acc, i + 1, player_pubkey, target_ship_id, attacker_pos, attacker_attack)
    ELSE LET j == FindShip(acc.players[i].ships, target_ship_id)
         IN IF j = 0
            THEN AttackLoop(acc, i + 1, player_pubkey, target_ship_id,
                            attacker_pos, attacker_attack)
            ELSE LET ship == acc.players[i].ships[j]
                     distance == Distance(ship.position_x, ship.position_y,
                                          attacker_pos[1], attacker_pos[2])
                     hit == DamageShip(ship, attacker_attack)
                 IN IF ~(distance <= 1)
                    THEN [acc EXCEPT !.err = "ShipsNotInRange", !.found = TRUE]
                    ELSE AttackLoop([acc EXCEPT !.players[i].ships[j] = hit,
                                                !.found = TRUE,
                                                !.destroyed = @ \/ hit.health = 0],
                                    i + 1, player_pubkey, target_ship_id,
                                    attacker_pos, attacker_attack)

\* the destroyed ship stays in its owner's list
RemoveDestroyed_Keep(players, target_destroyed, target_ship_id) == players

\* if target_destroyed, every player's ships.retain(|s| s.id != target_ship_id)
RemoveDestroyed(players, target_destroyed, target_ship_id) ==
    IF target_destroyed
    THEN [i \in 1..Len(players) |->
             [players[i] EXCEPT !.ships = Retain(@, LAMBDA s : s.id # target_ship_id)]]
    ELSE players

attack_ship(g, player_pubkey, attacker_ship_id, target_ship_id, now) ==
    IF TurnGuard(g, player_pubkey) # "Ok" THEN Err(TurnGuard(g, player_pubkey), g)
    ELSE LET pi == FindPlayer(g, player_pubkey)
             si == IF pi = 0 THEN 0 ELSE FindShip(g.players[pi].ships, attacker_ship_id)
             attacker_pos == IF si = 0 THEN <<0, 0>>
                             ELSE <<g.players[pi].ships[si].position_x,
                                    g.players[pi].ships[si].position_y>>
             attacker_attack == IF si = 0 THEN 0 ELSE g.players[pi].ships[si].attack
         IN IF ~(attacker_attack > 0) THEN Err("ShipNotFound", g)
            ELSE LET r == AttackLoop([err |-> "Ok", players |-> g.players,
                                      found |-> FALSE, destroyed |-> FALSE],
                                     1, player_pubkey, target_ship_id,
                                     attacker_pos, attacker_attack)
                 IN IF r.err # "Ok" THEN Err(r.err, g)
                    ELSE IF ~r.found THEN Err("ShipNotFound", g)
                    ELSE LET players1 == RemoveDestroyed(r.players, r.destroyed,
                                                         target_ship_id)
                         IN Ok(advance_turn([g EXCEPT !.players = players1], now))

claim_territory(g, player_pubkey, ship_id, now) ==
    IF TurnGuard(g, player_pubkey) # "Ok" THEN Err(TurnGuard(g, player_pubkey), g)
    ELSE LET pi == FindPlayer(g, player_pubkey)
             si == IF pi = 0 THEN 0 ELSE FindShip(g.players[pi].ships, ship_id)
         IN IF si = 0 THEN Err("ShipNotFound", g)
            ELSE LET x == g.players[pi].ships[si].position_x
                     y == g.players[pi].ships[si].position_y
                     index == (x * MAP_SIZE) + y
                 IN IF ~(index + 1 <= Len(g.territory_map)) THEN Err("InvalidCoordinate", g)
                    ELSE IF g.territory_map[index + 1].cell_type
                                \notin {"Island", "Port", "Treasure"}
                    THEN Err("InvalidCoordinate", g)
                    ELSE IF get_player_mut(g, player_pubkey) = 0
                    THEN Err("NotPlayerTurn", g)
                    ELSE LET mi == get_player_mut(g, player_pubkey)
                             coord == FormatCoord(x, y)
                             g1 == [g EXCEPT !.territory_map[index + 1].owner = player_pubkey]
                             g2 == [g1 EXCEPT !.players[mi].controlled_territories =
                                       IF \E k \in 1..Len(@) : @[k] = coord
                                       THEN @ ELSE Append(@, coord)]
                         IN Ok(advance_turn(g2, now))

\* what one entry of controlled_territories yields; nothing when it does not
\* split into two u8 values
CoordYield(coord_str, territory_map) ==
    LET parts == SplitComma(coord_str)
    IN IF Len(parts) = 2
       THEN IF ParseU8(parts[1]) >= 0 /\ ParseU8(parts[2]) >= 0
            THEN get_territory_resources(ParseU8(parts[1]), ParseU8(parts[2]), territory_map)
            ELSE NoResources
       ELSE NoResources

collect_resources(g, player_pubkey, now) ==
    IF TurnGuard(g, player_pubkey) # "Ok" THEN Err(TurnGuard(g, player_pubkey), g)
    ELSE LET pi == FindPlayer(g, player_pubkey)
         IN IF pi = 0 THEN Err("NotPlayerTurn", g)
            ELSE LET controlled_territories == g.players[pi].controlled_territories
                     yields == [k \in 1..Len(controlled_territories) |->
                                   CoordYield(controlled_territories[k], g.territory_map)]
                     total_gold == SumSeq([k \in 1..Len(yields) |-> yields[k].gold])
                     total_crew == SumSeq([k \in 1..Len(yields) |-> yields[k].crew])
                     total_supplies == SumSeq([k \in 1..Len(yields) |-> yields[k].supplies])
                 IN IF get_player_mut(g, player_pubkey) = 0 THEN Err("NotPlayerTurn", g)
                    ELSE LET mi == get_player_mut(g, player_pubkey)
                             g1 == [g EXCEPT !.players[mi].resources =
                                       [@ EXCEPT !.gold = saturating_add(@, total_gold),
                                                 !.crew = saturating_add(@, total_crew),
                                                 !.supplies = saturating_add(@, total_supplies)]]
                         IN Ok(advance_turn(g1, now))

build_ship(g, player_pubkey, ship_type, port_x, port_y, now) ==
    IF TurnGuard(g, player_pubkey) # "Ok" THEN Err(TurnGuard(g, player_pubkey), g)
    ELSE LET index == (port_x * MAP_SIZE) + port_y
         IN IF ~(index + 1 <= Len(g.territory_map)) THEN Err("InvalidCoordinate", g)
            ELSE IF g.territory_map[index + 1].cell_type # "Port" THEN Err("NoAdjacentPort", g)
            ELSE IF g.territory_map[index + 1].owner # player_pubkey
            THEN Err("TerritoryNotControlled", g)
            ELSE IF \E ij \in AllShips(g) :
                       LET s == g.players[ij[1]].ships[ij[2]]
                       IN s.position_x = port_x /\ s.position_y = port_y
            THEN Err("PositionOccupied", g)
            ELSE IF get_player_mut(g, player_pubkey) = 0 THEN Err("NotPlayerTurn", g)
            ELSE LET mi == get_player_mut(g, player_pubkey)
                     costs == get_ship_costs(ship_type)
                     player == g.players[mi]
                 IN IF ~(Len(player.ships) < MAX_SHIPS_PER_PLAYER) THEN Err("FleetSizeLimit", g)
                    ELSE IF ~(player.resources.gold >= costs.gold
                              /\ player.resources.crew >= costs.crew
                              /\ player.resources.cannons >= costs.cannons
                              /\ player.resources.supplies >= costs.supplies)
                    THEN Err("InsufficientResources", g)
                    ELSE LET ship == NewShip(ShipId(player_pubkey, now), ship_type,
                                             port_x, port_y, g.turn_number)
                             g1 == [g EXCEPT
                                       !.players[mi].resources =
                                           [gold |-> @.gold - costs.gold,
                                            crew |-> @.crew - costs.crew,
                                            cannons |-> @.cannons - costs.cannons,
                                            supplies |-> @.supplies - costs.supplies],
                                       !.players[mi].ships = Append(@, ship)]
                         IN Ok(advance_turn(g1, now))

scan_coordinate(g, player_pubkey, coordinate_x, coordinate_y, now) ==
    IF TurnGuard(g, player_pubkey) # "Ok" THEN Err(TurnGuard(g, player_pubkey), g)
    ELSE IF get_player_mut(g, player_pubkey) = 0 THEN Err("NotPlayerTurn", g)
    ELSE LET mi == get_player_mut(g, player_pubkey)
             player == g.players[mi]
         IN IF ~(player.scan_charges > 0) THEN Err("NoScansRemaining", g)
            ELSE IF is_coordinate_scanned(player.scanned_coordinates, coordinate_x, coordinate_y)
            THEN Err("CoordinateAlreadyScanned", g)
            ELSE IF coordinate_x >= MAP_SIZE \/ coordinate_y >= MAP_SIZE
            THEN Err("InvalidCoordinate", g)
            ELSE LET g1 == [g EXCEPT
                               !.players[mi].scanned_coordinates =
                                   mark_coordinate_scanned(@, coordinate_x, coordinate_y),
                               !.players[mi].scan_charges = @ - 1]
                 IN Ok(advance_turn(g1, now))

end_turn(g, player_pubkey, now) ==
    IF TurnGuard(g, player_pubkey) # "Ok" THEN Err(TurnGuard(g, player_pubkey), g)
    ELSE Ok(advance_turn(g, now))

resource_value(player) ==
    player.resources.gold + (player.resources.crew * 10)
    + (player.resources.cannons * 20) + (player.resources.supplies * 5)

fleet_power(player) ==
    SumSeq([k \in 1..Len(player.ships) |-> player.ships[k].health])

\* the score without the territories
time_limit_score_NoTerritories(player) ==
    (Cardinality({k \in 1..Len(player.ships) : player.ships[k].health > 0}) * 100)
    + (fleet_power(player) * 2)
    + resource_value(player)

time_limit_score(player) ==
    (Cardinality({k \in 1..Len(player.ships) : player.ships[k].health > 0}) * 100)
    + (fleet_power(player) * 2)
    + (Len(player.controlled_territories) * 150)
    + resource_value(player)

\* fleet dominance and territory control only
MeetsVictory_NoEconomic(g, i) ==
    LET total_fleet_power == SumSeq([k \in 1..Len(g.players) |-> fleet_power(g.players[k])])
        valuable_territories ==
            Cardinality({c \in 1..Len(g.territory_map) :
                g.territory_map[c].cell_type \in {"Port", "Island", "Treasure"}})
        player == g.players[i]
    IN \/ (total_fleet_power > 0 /\ fleet_power(player) * 100 >= total_fleet_power * 65)
       \/ (valuable_territories > 0
           /\ Len(player.controlled_territories) * 100 >= valuable_territories * 50)

\* one of the three victory conditions holds for players[i]
MeetsVictory(g, i) ==
    LET total_fleet_power == SumSeq([k \in 1..Len(g.players) |-> fleet_power(g.players[k])])
        valuable_territories ==
            Cardinality({c \in 1..Len(g.territory_map) :
                g.territory_map[c].cell_type \in {"Port", "Island", "Treasure"}})
        player == g.players[i]
    IN \/ (total_fleet_power > 0 /\ fleet_power(player) * 100 >= total_fleet_power * 65)
       \/ (valuable_territories > 0
           /\ Len(player.controlled_territories) * 100 >= valuable_territories * 50)
       \/ resource_value(player) >= 10000

check_and_complete_game(g) ==
    IF g.status # "Active" THEN Err("GameNotActive", g)
    ELSE LET active == {i \in 1..Len(g.players) : g.players[i].is_active}
         IN IF g.turn_number >= MAX_TURNS
            THEN \* stable sort by score, descending: the first of the best
                 IF active = {} THEN Ok(g)
                 ELSE LET best == CHOOSE i \in active :
                                     /\ \A j \in active :
                                          time_limit_score(g.players[j])
                                              <= time_limit_score(g.players[i])
                                     /\ \A j \in active :
                                          j < i => time_limit_score(g.players[j])
                                                      < time_limit_score(g.players[i])
                      IN Ok([g EXCEPT !.status = "Completed",
                                      !.winner = g.players[best].pubkey])
            ELSE LET winners == {i \in active : MeetsVictory(g, i)}
                 IN IF winners = {} THEN Ok(g)
                    ELSE LET first == CHOOSE i \in winners : \A j \in winners : i <= j
                         IN Ok([g EXCEPT !.status = "Completed",
                                         !.winner = g.players[first].pubkey])

(***************************************************************************)
(* Transactions on the PirateGame account                                  *)
(*                                                                         *)
(* variant names the program that owns the account and, for the fleet      *)
(* game, the profile of instructions that the signers submit:              *)
(*   fleet         up to four players; every handler is called, by the     *)
(*                 player on turn and by others, with inputs that name no  *)
(*                 ship or cell of theirs; played to the turn limit        *)
(*   fleet_build   k1 claims a port, builds, moves and scans; k2 passes    *)
(*   fleet_claim   k1 and k2 sail to the same port and claim it            *)
(*   fleet_combat  k1 and k2 close in and attack                           *)
(*   fleet_dominance  k2 sails towards k1 or passes; k1's frigate sails    *)
(*                 to meet k2's ships and attacks them, and never passes;  *)
(*                 anyone may ask for the victory check                    *)
(***************************************************************************)
FleetVariants ==
    {"fleet", "fleet_build", "fleet_claim", "fleet_combat", "fleet_dominance",
     "fleet_collect"}

\* the account after a transaction: an instruction that returns Err leaves
\* the account as it was
Outcome(g, r) == IF r.err = "Ok" THEN r.game ELSE g

Commit(op, r) ==
    /\ game' = Outcome(game, r)
    /\ last' = [op |-> op, err |-> r.err, was |-> game.status]
    /\ UNCHANGED <<variant, clock>>

InitFleet ==
    /\ variant \in FleetVariants
    /\ clock = Epoch
    /\ game = create_game("k1")
    /\ last = [op |-> "create_game", err |-> "Ok", was |-> "Waiting"]

\* last turn_number at which gameplay instructions are still submitted
TurnBound ==
    CASE variant = "fleet" -> MAX_TURNS
      [] variant = "fleet_build" -> BuildTurns
      [] variant = "fleet_claim" -> ClaimTurns
      [] variant = "fleet_combat" -> CombatTurns
      [] variant = "fleet_dominance" -> DominanceTurns
      [] variant = "fleet_collect" -> CollectTurns
      [] OTHER -> 0

Tick ==
    /\ variant = "fleet_build"
    /\ clock < Epoch + MaxClock
    /\ clock' = clock + 1
    /\ UNCHANGED <<variant, game, last>>

\* the next key that has not joined; in the fleet profile also k1 again
Joiners(g) ==
    IF variant = "fleet"
    THEN {KeyOrder[k] : k \in {n \in 1..Len(KeyOrder) : n = Len(g.players) + 1 \/ n = 1}}
    ELSE {KeyOrder[k] : k \in {n \in 1..MIN_PLAYERS : n = Len(g.players) + 1}}

Authorities == IF variant = "fleet" THEN {"k1", "k2"} ELSE {"k1"}

JoinGame ==
    /\ variant \in FleetVariants
    /\ \E player_pubkey \in Joiners(game) :
          Commit("join_game", join_game(game, player_pubkey, clock))

StartGame ==
    /\ variant \in FleetVariants
    /\ \E authority \in Authorities :
          Commit("start_game", start_game(game, authority, clock))

ResetGame ==
    /\ variant = "fleet"
    /\ game.turn_number <= MaxTurn \/ game.status = "Completed"
    /\ \E authority \in Authorities :
          Commit("reset_game", reset_game(game, authority))

CheckAndCompleteGame ==
    /\ variant \in {"fleet", "fleet_dominance"}
    /\ Commit("check_and_complete_game", check_and_complete_game(game))

\* signers of gameplay instructions: the player on turn; in the fleet
\* profile also k1 and k2, whoever is on turn
Callers(g) ==
    (IF variant = "fleet" THEN {"k1", "k2"} ELSE {})
    \cup {g.players[i].pubkey :
             i \in {n \in 1..Len(g.players) : n = g.current_player_index + 1}}

GhostId == <<"k1", "_", 0>>

\* ids of the signer's ships of one type
OwnIds(g, player_pubkey, ship_type) ==
    {g.players[ij[1]].ships[ij[2]].id :
        ij \in {e \in AllShips(g) :
                   /\ g.players[e[1]].pubkey = player_pubkey
                   /\ g.players[e[1]].ships[e[2]].ship_type = ship_type}}

\* ids of the signer's ships of one type in column x
OwnIdsAt(g, player_pubkey, ship_type, x) ==
    {g.players[ij[1]].ships[ij[2]].id :
        ij \in {e \in AllShips(g) :
                   /\ g.players[e[1]].pubkey = player_pubkey
                   /\ g.players[e[1]].ships[e[2]].ship_type = ship_type
                   /\ g.players[e[1]].ships[e[2]].position_x = x}}

\* ids of the other players' ships of one type
EnemyIds(g, player_pubkey, ship_type) ==
    {g.players[ij[1]].ships[ij[2]].id :
        ij \in {e \in AllShips(g) :
                   /\ g.players[e[1]].pubkey # player_pubkey
                   /\ g.players[e[1]].ships[e[2]].ship_type = ship_type}}

\* <<ship_id, to_x, to_y>>
MoveInputs(g, c) ==
    CASE variant = "fleet" ->
            {<<GhostId, 2, 1>>} \cup {<<id, 10, 1>> : id \in OwnIds(g, c, "Sloop")}
      [] variant = "fleet_build" /\ c = "k1" ->
            {<<id, 4, 1>> : id \in OwnIds(g, c, "Frigate")}
            \cup {<<id, 2, 1>> : id \in OwnIds(g, c, "Sloop")}
      [] variant = "fleet_claim" /\ c = "k1" ->
            {<<id, 4, 1>> : id \in OwnIds(g, c, "Frigate")}
      [] variant = "fleet_claim" /\ c = "k2" ->
            {<<id, 5, 1>> : id \in OwnIds(g, c, "Sloop")}
            \cup {<<id, 2, 1>> : id \in OwnIds(g, c, "Sloop")}
      [] variant = "fleet_combat" /\ c = "k1" ->
            {<<id, 4, 1>> : id \in OwnIds(g, c, "Frigate")}
      [] variant = "fleet_combat" /\ c = "k2" ->
            {<<id, 5, 1>> : id \in OwnIds(g, c, "Sloop")}
      [] variant = "fleet_dominance" /\ c = "k1" ->
            {<<id, 4, 1>> : id \in OwnIdsAt(g, c, "Frigate", 2)}
            \cup {<<id, 6, 1>> : id \in {i \in OwnIdsAt(g, c, "Frigate", 4) :
                                            EnemyIds(g, c, "Sloop") = {}}}
      [] variant = "fleet_dominance" /\ c = "k2" ->
            {<<id, 5, 1>> : id \in OwnIdsAt(g, c, "Sloop", 8)}
            \cup {<<id, 7, 1>> : id \in OwnIdsAt(g, c, "Frigate", 9)}
      [] variant = "fleet_collect" /\ c = "k1" ->
            {<<id, 3, 2>> : id \in OwnIdsAt(g, c, "Frigate", 2)}
            \cup {<<id, 0, 3>> : id \in OwnIdsAt(g, c, "Sloop", 1)}
      [] OTHER -> {}

\* <<attacker_ship_id, target_ship_id>>
AttackInputs(g, c) ==
    CASE variant = "fleet" -> {<<GhostId, GhostId>>}
      [] variant = "fleet_combat" /\ c = "k1" ->
            OwnIds(g, c, "Frigate") \X EnemyIds(g, c, "Sloop")
      [] variant = "fleet_combat" /\ c = "k2" ->
            OwnIds(g, c, "Sloop") \X EnemyIds(g, c, "Frigate")
      [] variant = "fleet_dominance" /\ c = "k1" ->
            OwnIds(g, c, "Frigate")
            \X (EnemyIds(g, c, "Sloop") \cup EnemyIds(g, c, "Frigate"))
      [] OTHER -> {}

\* ship_id
ClaimInputs(g, c) ==
    CASE variant = "fleet" -> {GhostId}
      [] variant \in {"fleet_build", "fleet_claim"} /\ c = "k1" -> OwnIds(g, c, "Frigate")
      [] variant = "fleet_claim" /\ c = "k2" -> OwnIds(g, c, "Sloop")
      [] variant = "fleet_collect" /\ c = "k1" ->
            OwnIds(g, c, "Frigate") \cup OwnIds(g, c, "Sloop")
      [] OTHER -> {}

\* <<ship_type, port_x, port_y>>
BuildInputs(g, c) ==
    CASE variant = "fleet" -> {<<"Sloop", 0, 0>>}
      [] variant = "fleet_build" /\ c = "k1" -> {<<"Sloop", 2, 1>>, <<"Frigate", 2, 1>>}
      [] OTHER -> {}

\* <<coordinate_x, coordinate_y>>
ScanInputs(g, c) ==
    CASE variant = "fleet" -> {<<10, 0>>}
      [] variant = "fleet_build" /\ c = "k1" -> {<<0, 7>>, <<0, 8>>}
      [] OTHER -> {}

CollectCallers(g) ==
    IF variant \in {"fleet", "fleet_build", "fleet_collect"}
    THEN Callers(g) \ (IF variant = "fleet" THEN {} ELSE {"k2"})
    ELSE {}

InPlay == variant \in FleetVariants /\ game.turn_number <= TurnBound

MoveShip ==
    /\ InPlay
    /\ \E player_pubkey \in Callers(game) :
          \E m \in MoveInputs(game, player_pubkey) :
             Commit("move_ship", move_ship(game, player_pubkey, m[1], m[2], m[3], clock))

AttackShip ==
    /\ InPlay
    /\ \E player_pubkey \in Callers(game) :
          \E a \in AttackInputs(game, player_pubkey) :
             Commit("attack_ship", attack_ship(game, player_pubkey, a[1], a[2], clock))

ClaimTerritory ==
    /\ InPlay
    /\ \E player_pubkey \in Callers(game) :
          \E ship_id \in ClaimInputs(game, player_pubkey) :
             Commit("claim_territory", claim_territory(game, player_pubkey, ship_id, clock))

CollectResources ==
    /\ InPlay
    /\ \E player_pubkey \in CollectCallers(game) :
          Commit("collect_resources", collect_resources(game, player_pubkey, clock))

BuildShip ==
    /\ InPlay
    /\ \E player_pubkey \in Callers(game) :
          \E b \in BuildInputs(game, player_pubkey) :
             Commit("build_ship", build_ship(game, player_pubkey, b[1], b[2], b[3], clock))

ScanCoordinate ==
    /\ InPlay
    /\ \E player_pubkey \in Callers(game) :
          \E c \in ScanInputs(game, player_pubkey) :
             Commit("scan_coordinate", scan_coordinate(game, player_pubkey, c[1], c[2], clock))

EndTurn ==
    /\ InPlay
    /\ \E player_pubkey \in Callers(game) \ (IF variant = "fleet_dominance" THEN {"k1"} ELSE {}) :
          Commit("end_turn", end_turn(game, player_pubkey, clock))

NextFleet ==
    \/ Tick
    \/ JoinGame
    \/ StartGame
    \/ ResetGame
    \/ CheckAndCompleteGame
    \/ MoveShip
    \/ AttackShip
    \/ ClaimTerritory
    \/ CollectResources
    \/ BuildShip
    \/ ScanCoordinate
    \/ EndTurn

SpecFleet == InitFleet /\ [][NextFleet]_vars

(***************************************************************************)
(* Item-catalog game: constants (contracts/pir8-game/src/lib.rs)           *)
(***************************************************************************)
GRID_SIZE == 7
MAX_COORDINATES == 49
GIFT_AMOUNT == 1000

\* (count, item_type) pairs; the counts add up to 52
ITEM_DISTRIBUTION ==
    <<<<21, 200>>, <<17, 1000>>, <<2, 3000>>, <<1, 5000>>,
      <<1, 0>>, <<1, 1>>, <<1, 2>>, <<1, 3>>, <<1, 4>>, <<1, 5>>,
      <<1, 6>>, <<1, 7>>, <<1, 8>>, <<1, 9>>, <<1, 10>>>>

VALID_LETTERS == <<"A", "B", "C", "D", "E", "F", "G">>
VALID_NUMBERS == <<"1", "2", "3", "4", "5", "6", "7">>

(***************************************************************************)
(* u64 arithmetic on eight little-endian limbs of eight bits               *)
(***************************************************************************)
LimbBase == 256
LimbCount == 8

RECURSIVE LimbAt(_, _)
LimbAt(n, k) == IF k = 1 THEN n % LimbBase ELSE LimbAt(n \div LimbBase, k - 1)

ToU64(n) == [k \in 1..LimbCount |-> LimbAt(n, k)]

RECURSIVE MulColumns(_, _, _, _)
MulColumns(a, b, k, carry) ==
    IF k > LimbCount THEN <<>>
    ELSE LET col == carry + SumSeq([i \in 1..k |-> a[i] * b[k + 1 - i]])
         IN <<col % LimbBase>> \o MulColumns(a, b, k + 1, col \div LimbBase)

wrapping_mul(a, b) == MulColumns(a, b, 1, 0)

RECURSIVE AddColumns(_, _, _, _)
AddColumns(a, b, k, carry) ==
    IF k > LimbCount THEN <<>>
    ELSE LET col == carry + a[k] + b[k]
         IN <<col % LimbBase>> \o AddColumns(a, b, k + 1, col \div LimbBase)

wrapping_add(a, b) == AddColumns(a, b, 1, 0)

\* a % m for a u64 a and a small m, most significant limb first
RECURSIVE ModFrom(_, _, _)
ModFrom(a, k, m) ==
    IF k > LimbCount THEN 0
    ELSE ((ModFrom(a, k + 1, m) * LimbBase) + a[k]) % m

U64Mod(a, m) == ModFrom(a, 1, m)

(***************************************************************************)
(* Grid generation (lib.rs generate_game_grid)                             *)
(***************************************************************************)
Points(points) == [kind |-> "Points", points |-> points]
Special(kind) == [kind |-> kind, points |-> 0]

ItemOf(item_type) ==
    CASE item_type = 200 -> Points(200)
      [] item_type = 1000 -> Points(1000)
      [] item_type = 3000 -> Points(3000)
      [] item_type = 5000 -> Points(5000)
      [] item_type = 0 -> Special("Grinch")
      [] item_type = 1 -> Special("Pudding")
      [] item_type = 2 -> Special("Present")
      [] item_type = 3 -> Special("Snowball")
      [] item_type = 4 -> Special("Mistletoe")
      [] item_type = 5 -> Special("Tree")
      [] item_type = 6 -> Special("Elf")
      [] item_type = 7 -> Special("Bauble")
      [] item_type = 8 -> Special("Turkey")
      [] item_type = 9 -> Special("Cracker")
      [] item_type = 10 -> Special("Bank")

RECURSIVE UnshuffledGrid(_)
UnshuffledGrid(k) ==
    IF k > Len(ITEM_DISTRIBUTION) THEN <<>>
    ELSE [n \in 1..ITEM_DISTRIBUTION[k][1] |-> ItemOf(ITEM_DISTRIBUTION[k][2])]
         \o UnshuffledGrid(k + 1)

\* the swap writing one of its two cells only
Swap_Overwrite(grid, i, j) == [grid EXCEPT ![i + 1] = grid[j + 1]]

\* grid.swap(i, j) with the indices counted from 0
Swap(grid, i, j) == [grid EXCEPT ![i + 1] = grid[j + 1], ![j + 1] = grid[i + 1]]

LcgNext(rng_state) ==
    wrapping_add(wrapping_mul(rng_state, ToU64(1103515245)), ToU64(12345))

\* The shuffle loop, for i in (1..grid.len()).rev(), runs 51 steps.  Both
\* operators below split the steps in halves, so that the evaluation nests
\* to the logarithm of the step count instead of the step count.

\* rng_state after each of the next n steps
RECURSIVE RngStates(_, _)
RngStates(rng_state, n) ==
    IF n = 1 THEN <<LcgNext(rng_state)>>
    ELSE LET head == RngStates(rng_state, n \div 2)
         IN head \o RngStates(head[Len(head)], n - (n \div 2))

\* the grid after steps lo..hi; step k has i = grid.len() - k and
\* j = states[k] % (i + 1).  TLC evaluates an operator's argument only where
\* it is first used; the test on Len(left), which always holds, has the
\* first half evaluated before the second half is entered.
RECURSIVE Shuffled(_, _, _, _)
Shuffled(grid, states, lo, hi) ==
    IF lo = hi
    THEN LET i == Len(grid) - lo
         IN Swap(grid, i, U64Mod(states[lo], i + 1))
    ELSE LET mid == (lo + hi) \div 2
             left == Shuffled(grid, states, lo, mid)
         IN IF Len(left) = Len(grid)
            THEN Shuffled(left, states, mid + 1, hi)
            ELSE grid

generate_game_grid(seed) ==
    LET grid == UnshuffledGrid(1)
        states == RngStates(ToU64(seed), Len(grid) - 1)
    IN Shuffled(grid, states, 1, Len(states))

(***************************************************************************)
(* Item-catalog game: account methods (lib.rs impl Game)                   *)
(*                                                                         *)
(* A coordinate string is the sequence of its chars; a char is a string,   *)
(* and Utf8Len gives the bytes it takes, since String::len counts bytes.   *)
(***************************************************************************)
Utf8Len(ch) == IF ch = "U+00E9" THEN 2 ELSE 1

StrLen(str) == SumSeq([i \in 1..Len(str) |-> Utf8Len(str[i])])

Contains(s, x) == \E i \in 1..Len(s) : s[i] = x

PlayerState_new(player_key) ==
    [player_key |-> player_key,
     points |-> 0,
     banked_points |-> 0,
     has_elf |-> FALSE,
     has_bauble |-> FALSE,
     is_active |-> TRUE]

is_player_in_game(g, player) ==
    \E i \in 1..Len(g.players) : g.players[i].player_key = player

\* Option<usize>: the index counted from 0, -1 for None
get_player_index(g, player) ==
    IF is_player_in_game(g, player)
    THEN (CHOOSE i \in 1..Len(g.players) :
             /\ g.players[i].player_key = player
             /\ \A j \in 1..(i - 1) : g.players[j].player_key # player) - 1
    ELSE -1

\* u8 arithmetic: the index is below 4, so + 1 does not overflow
Game_advance_turn_NoWrap(g) ==
    [g EXCEPT !.current_player_index = g.current_player_index + 1]

\* the turn passing over one player
Game_advance_turn_Twice(g) ==
    [g EXCEPT !.current_player_index = (g.current_player_index + 2) % Len(g.players)]

Game_advance_turn(g) ==
    [g EXCEPT !.current_player_index = (g.current_player_index + 1) % Len(g.players)]

is_coordinate_available(g, coordinate) ==
    ~(\E i \in 1..Len(g.chosen_coordinates) : g.chosen_coordinates[i] = coordinate)

add_coordinate(g, coordinate) ==
    [g EXCEPT !.chosen_coordinates = Append(@, coordinate)]

\* completion by the status alone, never by the number of picks
is_game_complete_ByStatus(g) == g.status = "Completed"

is_game_complete(g) ==
    Len(g.chosen_coordinates) >= MAX_COORDINATES \/ g.status = "Completed"

calculate_final_scores(g) ==
    [i \in 1..Len(g.players) |-> g.players[i].points + g.players[i].banked_points]

\* the first maximum instead of the last
determine_winner_First(g) ==
    LET scores == calculate_final_scores(g)
    IN IF scores = <<>> THEN -1
       ELSE (CHOOSE i \in 1..Len(scores) :
                /\ \A j \in 1..Len(scores) : scores[j] <= scores[i]
                /\ \A j \in 1..(i - 1) : scores[j] < scores[i]) - 1

\* max_by_key returns the last maximum; index from 0, -1 for None
determine_winner(g) ==
    LET scores == calculate_final_scores(g)
    IN IF scores = <<>> THEN -1
       ELSE (CHOOSE i \in 1..Len(scores) :
                /\ \A j \in 1..Len(scores) : scores[j] <= scores[i]
                /\ \A j \in (i + 1)..Len(scores) : scores[j] < scores[i]) - 1

is_valid_coordinate(coordinate) ==
    IF StrLen(coordinate) # 2 THEN FALSE
    ELSE /\ Contains(VALID_LETTERS, coordinate[1])
         /\ Contains(VALID_NUMBERS, coordinate[2])

\* -1 for Err(InvalidCoordinate)
coordinate_to_grid_index(coordinate) ==
    LET letter == coordinate[1]
        number == coordinate[2]
        col == CASE letter = "A" -> 0 [] letter = "B" -> 1 [] letter = "C" -> 2
                 [] letter = "D" -> 3 [] letter = "E" -> 4 [] letter = "F" -> 5
                 [] letter = "G" -> 6 [] OTHER -> -1
        row == CASE number = "1" -> 0 [] number = "2" -> 1 [] number = "3" -> 2
                 [] number = "4" -> 3 [] number = "5" -> 4 [] number = "6" -> 5
                 [] number = "7" -> 6 [] OTHER -> -1
    IN IF col < 0 \/ row < 0 THEN -1 ELSE (row * GRID_SIZE) + col

(***************************************************************************)
(* Item-catalog game: create, join, start, complete                        *)
(***************************************************************************)
pir8_create_game(creator, max_players, random_seed) ==
    [creator |-> creator,
     status |-> "Waiting",
     players |-> <<>>,
     current_player_index |-> 0,
     grid |-> generate_game_grid(random_seed),
     chosen_coordinates |-> <<>>,
     max_players |-> max_players,
     winner |-> None,
     final_scores |-> <<>>,
     random_seed |-> random_seed]

pir8_join_game(g, player) ==
    IF g.status # "Waiting" THEN Err("GameNotActive", g)
    ELSE IF ~(Len(g.players) < g.max_players) THEN Err("GameFull", g)
    ELSE IF is_player_in_game(g, player) THEN Err("PlayerNotInGame", g)
    ELSE Ok([g EXCEPT !.players = Append(@, PlayerState_new(player))])

pir8_start_game(g, creator) ==
    IF g.status # "Waiting" THEN Err("GameNotActive", g)
    ELSE IF ~(Len(g.players) >= MIN_PLAYERS) THEN Err("GameNotReadyToStart", g)
    ELSE IF ~(g.creator = creator \/ Len(g.players) >= g.max_players)
    THEN Err("Unauthorized", g)
    ELSE Ok([g EXCEPT !.status = "Active",
                      !.current_player_index = g.random_seed % Len(g.players)])

\* completion that leaves the winner unset
Complete_NoWinner(g) ==
    [g EXCEPT !.status = "Completed", !.final_scores = calculate_final_scores(g)]

\* status = Completed, final scores and winner
Complete(g) ==
    LET winner_index == determine_winner(g)
    IN [g EXCEPT !.status = "Completed",
                 !.final_scores = calculate_final_scores(g),
                 !.winner = IF winner_index >= 0
                            THEN g.players[winner_index + 1].player_key
                            ELSE g.winner]

complete_game(g) ==
    IF g.status # "Active" THEN Err("GameNotActive", g)
    ELSE IF ~is_game_complete(g) THEN Err("GameNotReadyToStart", g)
    ELSE Ok(Complete(g))

(***************************************************************************)
(* Item-catalog game: make_move                                            *)
(***************************************************************************)
\* position in players of the player on turn, 0 when the index is past the end
Game_get_current_player(g) ==
    IF g.current_player_index < Len(g.players) THEN g.current_player_index + 1 ELSE 0

\* account constraints of MakeMove and ExecuteItemEffect, in their order;
\* unwrap() on no current player aborts the transaction
TurnConstraint(g, player) ==
    IF g.status # "Active" THEN "GameNotActive"
    ELSE IF Game_get_current_player(g) = 0 THEN "Panic"
    ELSE IF g.players[Game_get_current_player(g)].player_key # player THEN "NotYourTurn"
    ELSE "Ok"

\* every item found adds 200 points
FoundItem_Flat(current_player, item) ==
    [player |-> [current_player EXCEPT !.points = @ + 200], requires_action |-> FALSE]

\* Bank copying the points into banked_points without clearing them
FoundItem_BankCopies(current_player, item) ==
    CASE item.kind = "Points" ->
           [player |-> [current_player EXCEPT !.points = @ + item.points],
            requires_action |-> FALSE]
      [] item.kind \in {"Grinch", "Pudding", "Present", "Mistletoe", "Tree"} ->
           [player |-> current_player, requires_action |-> TRUE]
      [] item.kind = "Snowball" ->
           [player |-> current_player, requires_action |-> FALSE]
      [] item.kind = "Elf" ->
           [player |-> [current_player EXCEPT !.has_elf = TRUE],
            requires_action |-> FALSE]
      [] item.kind = "Bauble" ->
           [player |-> [current_player EXCEPT !.has_bauble = TRUE],
            requires_action |-> FALSE]
      [] item.kind = "Turkey" ->
           [player |-> [current_player EXCEPT !.points = 0],
            requires_action |-> FALSE]
      [] item.kind = "Cracker" ->
           [player |-> [current_player EXCEPT !.points = @ * 2],
            requires_action |-> FALSE]
      [] item.kind = "Bank" ->
           [player |-> [current_player EXCEPT
                           !.banked_points = @ + current_player.points],
            requires_action |-> FALSE]

\* the match on the item found: the player afterwards and requires_action.
\* checked_add / checked_mul fail only past 2^64 - 1; the grid holds 32200
\* points in all, so the sums here stay far below that.
FoundItem(current_player, item) ==
    CASE item.kind = "Points" ->
           [player |-> [current_player EXCEPT !.points = @ + item.points],
            requires_action |-> FALSE]
      [] item.kind \in {"Grinch", "Pudding", "Present", "Mistletoe", "Tree"} ->
           [player |-> current_player, requires_action |-> TRUE]
      [] item.kind = "Snowball" ->
           [player |-> current_player, requires_action |-> FALSE]
      [] item.kind = "Elf" ->
           [player |-> [current_player EXCEPT !.has_elf = TRUE],
            requires_action |-> FALSE]
      [] item.kind = "Bauble" ->
           [player |-> [current_player EXCEPT !.has_bauble = TRUE],
            requires_action |-> FALSE]
      [] item.kind = "Turkey" ->
           [player |-> [current_player EXCEPT !.points = 0],
            requires_action |-> FALSE]
      [] item.kind = "Cracker" ->
           [player |-> [current_player EXCEPT !.points = @ * 2],
            requires_action |-> FALSE]
      [] item.kind = "Bank" ->
           [player |-> IF current_player.points > 0
                       THEN [current_player EXCEPT
                                !.banked_points = @ + current_player.points,
                                !.points = 0]
                       ELSE current_player,
            requires_action |-> FALSE]

\* make_move without the is_coordinate_available test
make_move_NoTaken(g, player, coordinate) ==
    LET constraint == TurnConstraint(g, player)
    IN IF constraint # "Ok" THEN Err(constraint, g)
       ELSE IF ~is_valid_coordinate(coordinate) THEN Err("InvalidCoordinate", g)
       ELSE LET coordinate_index == coordinate_to_grid_index(coordinate)
                g1 == add_coordinate(g, coordinate)
                cur == Game_get_current_player(g1)
                found == FoundItem(g1.players[cur], g.grid[coordinate_index + 1])
                g2 == [g1 EXCEPT !.players[cur] = found.player]
            IN IF coordinate_index < 0 THEN Err("InvalidCoordinate", g)
               ELSE IF is_game_complete(g2) THEN Ok(Complete(g2))
               ELSE IF ~found.requires_action THEN Ok(Game_advance_turn(g2))
               ELSE Ok(g2)

make_move(g, player, coordinate) ==
    LET constraint == TurnConstraint(g, player)
    IN IF constraint # "Ok" THEN Err(constraint, g)
       ELSE IF ~is_valid_coordinate(coordinate) THEN Err("InvalidCoordinate", g)
       ELSE IF ~is_coordinate_available(g, coordinate) THEN Err("CoordinateTaken", g)
       ELSE LET coordinate_index == coordinate_to_grid_index(coordinate)
                g1 == add_coordinate(g, coordinate)
                cur == Game_get_current_player(g1)
                found == FoundItem(g1.players[cur], g.grid[coordinate_index + 1])
                g2 == [g1 EXCEPT !.players[cur] = found.player]
            IN IF coordinate_index < 0 THEN Err("InvalidCoordinate", g)
               ELSE IF is_game_complete(g2) THEN Ok(Complete(g2))
               ELSE IF ~found.requires_action THEN Ok(Game_advance_turn(g2))
               ELSE Ok(g2)

(***************************************************************************)
(* Item-catalog game: execute_item_effect                                  *)
(*                                                                         *)
(* An ItemAction is a record [kind, amount, coordinate]; target_player is  *)
(* a pubkey or None.  cur and tgt are positions in players.  The           *)
(* assignments of each branch are applied in the order the code makes      *)
(* them, which matters when cur = tgt.                                     *)
(***************************************************************************)
Min2(a, b) == IF a <= b THEN a ELSE b

SetPoints(g, i, points) == [g EXCEPT !.players[i].points = points]

StealReflected(g, cur, tgt, steal_amount) ==
    LET g0 == [g EXCEPT !.players[tgt].has_bauble = FALSE]
        current_points == g0.players[cur].points
        reflected_amount == Min2(steal_amount, current_points)
        g1 == SetPoints(g0, cur, saturating_sub(current_points, reflected_amount))
    IN SetPoints(g1, tgt, saturating_add(g1.players[tgt].points, reflected_amount))

\* the steal taking the whole amount asked for, whatever the target holds
StealExecuted_Full(g, cur, tgt, steal_amount) ==
    LET g1 == SetPoints(g, tgt, saturating_sub(g.players[tgt].points, steal_amount))
    IN SetPoints(g1, cur, saturating_add(g1.players[cur].points, steal_amount))

StealExecuted(g, cur, tgt, steal_amount) ==
    LET target_points == g.players[tgt].points
        actual_steal == Min2(steal_amount, target_points)
        g1 == SetPoints(g, tgt, saturating_sub(target_points, actual_steal))
    IN SetPoints(g1, cur, saturating_add(g1.players[cur].points, actual_steal))

SwapExecuted(g, cur, tgt) ==
    LET current_points == g.players[cur].points
        target_points == g.players[tgt].points
    IN SetPoints(SetPoints(g, cur, target_points), tgt, current_points)

GiftExecuted(g, cur, tgt) ==
    LET g1 == SetPoints(g, cur, saturating_sub(g.players[cur].points, GIFT_AMOUNT))
    IN SetPoints(g1, tgt, saturating_add(g1.players[tgt].points, GIFT_AMOUNT))

\* the block also consuming the reflect flag
BlockedByElf_Both(g, tgt) ==
    [g EXCEPT !.players[tgt].has_elf = FALSE, !.players[tgt].has_bauble = FALSE]

BlockedByElf(g, tgt) == [g EXCEPT !.players[tgt].has_elf = FALSE]

\* programs/pir8-game/src/instructions/execute_item_effect.rs, the match
Effect(g, cur, tgt, action, has_target) ==
    CASE action.kind = "Steal" ->
           IF ~has_target THEN Err("TargetPlayerNotFound", g)
           ELSE IF g.players[tgt].has_elf THEN Ok(BlockedByElf(g, tgt))
           ELSE IF g.players[tgt].has_bauble
           THEN Ok(StealReflected(g, cur, tgt, action.amount))
           ELSE Ok(StealExecuted(g, cur, tgt, action.amount))
      [] action.kind = "Swap" ->
           IF ~has_target THEN Err("TargetPlayerNotFound", g)
           ELSE IF g.players[tgt].has_elf THEN Ok(BlockedByElf(g, tgt))
           ELSE IF g.players[tgt].has_bauble
           THEN Ok([g EXCEPT !.players[tgt].has_bauble = FALSE])
           ELSE Ok(SwapExecuted(g, cur, tgt))
      [] action.kind = "Gift" ->
           IF ~has_target THEN Err("TargetPlayerNotFound", g)
           ELSE IF ~(g.players[cur].points >= GIFT_AMOUNT) THEN Err("NotEnoughPoints", g)
           ELSE Ok(GiftExecuted(g, cur, tgt))
      [] action.kind = "Kill" ->
           IF ~has_target THEN Err("TargetPlayerNotFound", g)
           ELSE IF g.players[tgt].has_elf THEN Ok(BlockedByElf(g, tgt))
           ELSE IF g.players[tgt].has_bauble
           THEN Ok(SetPoints([g EXCEPT !.players[tgt].has_bauble = FALSE], cur, 0))
           ELSE Ok(SetPoints(g, tgt, 0))
      [] action.kind = "Choose" ->
           IF ~is_valid_coordinate(action.coordinate) THEN Err("InvalidCoordinate", g)
           ELSE IF ~is_coordinate_available(g, action.coordinate)
           THEN Err("CoordinateTaken", g)
           ELSE Ok(g)

\* contracts/pir8-game/src/lib.rs, the match
Effect_lib(g, cur, tgt, action) ==
    CASE action.kind = "Steal" ->
           IF g.players[tgt].has_elf THEN Ok(BlockedByElf(g, tgt))
           ELSE IF g.players[tgt].has_bauble
           THEN Ok(StealReflected(g, cur, tgt, action.amount))
           ELSE Ok(StealExecuted(g, cur, tgt, action.amount))
      [] action.kind = "Swap" ->
           IF g.players[tgt].has_elf THEN Ok(BlockedByElf(g, tgt))
           ELSE Ok(SwapExecuted(g, cur, tgt))
      [] action.kind = "Gift" ->
           IF g.players[cur].points >= GIFT_AMOUNT
           THEN Ok(GiftExecuted(g, cur, tgt))
           ELSE Ok(g)
      [] action.kind = "Kill" ->
           IF g.players[tgt].has_elf THEN Ok(BlockedByElf(g, tgt))
           ELSE Ok(SetPoints(g, tgt, 0))
      [] action.kind = "Choose" ->
           IF ~is_valid_coordinate(action.coordinate) THEN Err("InvalidCoordinate", g)
           ELSE Ok(g)

\* the target's position in players: Err for the signer and for a key not in
\* the game, position 1 (index 0) when no target is given
TargetIndex(g, player, target_player) ==
    IF target_player # None
    THEN IF ~(target_player # player) THEN [err |-> "CannotTargetSelf", tgt |-> 0]
         ELSE IF get_player_index(g, target_player) < 0
         THEN [err |-> "TargetPlayerNotFound", tgt |-> 0]
         ELSE [err |-> "Ok", tgt |-> get_player_index(g, target_player) + 1]
    ELSE [err |-> "Ok", tgt |-> 1]

AdvanceIfOk(r) == IF r.err = "Ok" THEN Ok(Game_advance_turn(r.game)) ELSE r

execute_item_effect(g, player, action, target_player) ==
    LET constraint == TurnConstraint(g, player)
        target == TargetIndex(g, player, target_player)
    IN IF constraint # "Ok" THEN Err(constraint, g)
       ELSE IF target.err # "Ok" THEN Err(target.err, g)
       ELSE AdvanceIfOk(Effect(g, g.current_player_index + 1, target.tgt,
                               action, target_player # None))

execute_item_effect_lib(g, player, action, target_player) ==
    LET constraint == TurnConstraint(g, player)
        target == TargetIndex(g, player, target_player)
    IN IF constraint # "Ok" THEN Err(constraint, g)
       ELSE IF target.err # "Ok" THEN Err(target.err, g)
       ELSE AdvanceIfOk(Effect_lib(g, g.current_player_index + 1, target.tgt, action))

(***************************************************************************)
(* Item-catalog game: transactions                                         *)
(*                                                                         *)
(* Profiles:                                                               *)
(*   items_programs  execute_item_effect of programs/pir8-game             *)
(*   items_lib       execute_item_effect of the contracts/pir8-game        *)
(*                   monolith                                              *)
(*   items_board     the whole board is picked, row by row                 *)
(* In the first two the players pick among the first cells of row 1 and    *)
(* use every item action on every target.                                  *)
(***************************************************************************)
ItemVariants == {"items_programs", "items_lib", "items_board"}

\* (max_players, random_seed) of the games created.  Both grids start with
\* Points(1000), an Elf and a Bauble; seed 124428 makes k1 start, and seed
\* 141821 makes k2 start among two players and k3 among three.
Lobbies == {<<2, 124428>>, <<2, 141821>>, <<3, 141821>>}

\* seed of the board profile
BoardSeed == 37

Coord(col, row) == <<VALID_LETTERS[col], VALID_NUMBERS[row]>>

\* cells the players pick from
PickCoords == {Coord(1, 1), Coord(2, 1), Coord(3, 1)}

\* strings that are not coordinates: lower case, digit out of range, letter
\* out of range, one char, three chars, one two-byte char, digit first
BadCoords ==
    {<<"a", "1">>, <<"A", "8">>, <<"H", "1">>, <<"A">>, <<"A", "1", "1">>,
     <<"U+00E9">>, <<"1", "A">>}

\* the coordinate of grid index n
CoordAt(n) == Coord((n % GRID_SIZE) + 1, (n \div GRID_SIZE) + 1)

InitItems ==
    /\ variant \in ItemVariants
    /\ clock = Epoch
    /\ \E lobby \in (IF variant = "items_board" THEN {<<2, BoardSeed>>} ELSE Lobbies) :
          game = pir8_create_game("k1", lobby[1], lobby[2])
    /\ last = [op |-> "create_game", err |-> "Ok", was |-> "Waiting"]

\* the next key that has not joined, and k1 again
ItemJoiners(g) ==
    {KeyOrder[k] : k \in {n \in 1..Len(KeyOrder) : n = Len(g.players) + 1 \/ n = 1}}

\* the player on turn, and k1 whoever is on turn
ItemCallers(g) ==
    {"k1"} \cup {g.players[i].player_key :
                    i \in {n \in 1..Len(g.players) : n = g.current_player_index + 1}}

MoveCoords(g) ==
    IF variant = "items_board"
    THEN {CoordAt(n) : n \in {k \in 0..(MAX_COORDINATES - 1) :
                                 k = Len(g.chosen_coordinates) \/ k = 0}}
    ELSE PickCoords \cup {<<"A", "8">>, <<"U+00E9">>}

TargetedActions ==
    {[kind |-> "Steal", amount |-> 500, coordinate |-> <<>>],
     [kind |-> "Swap", amount |-> 0, coordinate |-> <<>>],
     [kind |-> "Gift", amount |-> 0, coordinate |-> <<>>],
     [kind |-> "Kill", amount |-> 0, coordinate |-> <<>>]}

\* (signer, action, target) of the execute_item_effect calls: the player on
\* turn uses every targeted action on every target among the first three
\* keys and on no target, and Choose on a free cell; k1 also calls when it
\* is not on turn
EffectInputs(g) ==
    LET onTurn == {g.players[i].player_key :
                      i \in {n \in 1..Len(g.players) : n = g.current_player_index + 1}}
    IN {<<p, a, t>> : p \in onTurn, a \in TargetedActions,
                      t \in {None, "k1", "k2", "k3"}}
       \cup {<<p, [kind |-> "Choose", amount |-> 0, coordinate |-> Coord(3, 1)], None>> :
                 p \in onTurn}
       \cup {<<"k1", [kind |-> "Kill", amount |-> 0, coordinate |-> <<>>], "k2">>}

ItemJoinGame ==
    /\ variant \in ItemVariants
    /\ \E player \in ItemJoiners(game) :
          Commit("join_game", pir8_join_game(game, player))

ItemStartGame ==
    /\ variant \in ItemVariants
    /\ \E creator \in {"k1", "k2"} :
          Commit("start_game", pir8_start_game(game, creator))

MakeMove ==
    /\ variant \in ItemVariants
    /\ game.status # "Waiting"
    /\ \E player \in ItemCallers(game), coordinate \in MoveCoords(game) :
          Commit("make_move", make_move(game, player, coordinate))

ExecuteItemEffect ==
    /\ variant \in {"items_programs", "items_lib"}
    /\ game.status # "Waiting"
    /\ \E input \in EffectInputs(game) :
          Commit("execute_item_effect",
                 IF variant = "items_programs"
                 THEN execute_item_effect(game, input[1], input[2], input[3])
                 ELSE execute_item_effect_lib(game, input[1], input[2], input[3]))

CompleteGame ==
    /\ variant \in ItemVariants
    /\ Commit("complete_game", complete_game(game))

NextItems ==
    \/ ItemJoinGame
    \/ ItemStartGame
    \/ MakeMove
    \/ ExecuteItemEffect
    \/ CompleteGame

SpecItems == InitItems /\ [][NextItems]_vars

(***************************************************************************)
(* Both games                                                              *)
(***************************************************************************)
Init == InitFleet \/ InitItems

Next == NextFleet \/ NextItems

Spec == Init /\ [][Next]_vars

(***************************************************************************)
(* Victory evaluation on positions of a long game                          *)
(*                                                                         *)
(* Profile victory: check_and_complete_game is submitted on positions that *)
(* three players reach after many turns of combat, claiming and            *)
(* collecting: ships damaged or sunk and removed, territories claimed,     *)
(* gold collected, at an early turn and around the turn limit.             *)
(***************************************************************************)
\* a game of k1, k2 and k3 started by k1 at Epoch
VictoryBase ==
    LET g1 == join_game(create_game("k1"), "k1", Epoch).game
        g2 == join_game(g1, "k2", Epoch).game
        g3 == join_game(g2, "k3", Epoch).game
    IN start_game(g3, "k1", Epoch).game

\* "x,y" of the Port, Island and Treasure cells, in map order
ValuableCoords ==
    LET cells == SelectSeq([i \in 1..(MAP_SIZE * MAP_SIZE) |-> i],
                           LAMBDA i : VictoryBase.territory_map[i].cell_type
                                         \in {"Port", "Island", "Treasure"})
    IN [k \in 1..Len(cells) |->
           FormatCoord((cells[k] - 1) \div MAP_SIZE, (cells[k] - 1) % MAP_SIZE)]

\* the positions: a game of k1, k2 and k3 started by k1 at Epoch, in which
\* each player's <<sloop, frigate>> have one of four healths (0 is a ship
\* sunk and removed; not every ship of the game is sunk), each player holds
\* no territory or the first half of the Port, Island and Treasure cells (a
\* cell claimed by several belongs to the last of them), and has the gold
\* dealt at the start or enough for a resource value of exactly 10000
InitVictory ==
    LET base == VictoryBase
        valuable == ValuableCoords
        healths == {<<100, 200>>, <<30, 100>>, <<0, 70>>, <<0, 0>>}
        counts == {0, (Len(valuable) + 1) \div 2}
        golds == {1000, 8800}
        turns == {1, MAX_TURNS - 1, MAX_TURNS}
        Position(player, fleet, territories, gold) ==
            [player EXCEPT
                !.ships = SelectSeq([k \in 1..Len(@) |-> [@[k] EXCEPT !.health = fleet[k]]],
                                    LAMBDA s : s.health > 0),
                !.controlled_territories = SubSeq(valuable, 1, territories),
                !.resources.gold = gold]
        OwnedMap(territory_map, players) ==
            [i \in 1..Len(territory_map) |->
                LET coord == FormatCoord((i - 1) \div MAP_SIZE, (i - 1) % MAP_SIZE)
                    holders == {p \in 1..Len(players) :
                                   \E k \in 1..Len(players[p].controlled_territories) :
                                      players[p].controlled_territories[k] = coord}
                IN IF holders = {} THEN territory_map[i]
                   ELSE [territory_map[i] EXCEPT
                            !.owner = players[CHOOSE p \in holders :
                                                 \A q \in holders : q <= p].pubkey]]
    IN /\ variant = "victory"
       /\ clock = Epoch
       /\ \E fleet \in [1..3 -> healths], territories \in [1..3 -> counts],
             gold \in [1..3 -> golds], turn \in turns :
             LET players == [i \in 1..3 |-> Position(base.players[i], fleet[i],
                                                     territories[i], gold[i])]
             IN /\ \E i \in 1..3 : players[i].ships # <<>>
                /\ game = [base EXCEPT
                              !.players = players,
                              !.territory_map = OwnedMap(@, players),
                              !.turn_number = turn]
       /\ last = [op |-> "end_turn", err |-> "Ok", was |-> "Active"]

EvaluateVictory ==
    /\ variant = "victory"
    /\ Commit("check_and_complete_game", check_and_complete_game(game))

SpecVictory == InitVictory /\ [][EvaluateVictory]_vars

(***************************************************************************)
(* The contracts draft (contracts/pir8-game/src/instructions.rs): a game   *)
(* created by k1 that k2 joins, with the draft's own map, move and claim   *)
(***************************************************************************)
\* number of join_game calls the scenario makes after create_game, plus one
DraftPlayers == 2
DraftTurns == 3

\* the draft's map: four rings around the centre, Reef in the third
draft_generate_strategic_map(seed) ==
    LET cell_type(x, y) ==
            LET rand_val == RandVal(seed + ((x * MAP_SIZE) + y))
            IN IF WithinRadius(x, y, 4)
               THEN IF rand_val < 40 THEN "Treasure"
                    ELSE IF rand_val < 70 THEN "Port" ELSE "Water"
               ELSE IF WithinRadius(x, y, 8)
               THEN IF rand_val < 20 THEN "Island"
                    ELSE IF rand_val < 35 THEN "Port" ELSE "Water"
               ELSE IF WithinRadius(x, y, 12)
               THEN IF rand_val < 10 THEN "Storm"
                    ELSE IF rand_val < 15 THEN "Reef" ELSE "Water"
               ELSE IF rand_val < 20 THEN "Whirlpool"
                    ELSE IF rand_val < 35 THEN "Storm" ELSE "Water"
    IN [i \in 1..(MAP_SIZE * MAP_SIZE) |->
           [cell_type |-> cell_type((i - 1) \div MAP_SIZE, (i - 1) % MAP_SIZE),
            owner |-> None]]

\* players is an array of four slots; the unused ones hold
\* PlayerData::default(), a joined one has 20 cannons
draft_create_game(authority, now) ==
    [authority |-> authority,
     status |-> "Waiting",
     player_count |-> 1,
     current_player_index |-> 0,
     turn_number |-> 1,
     winner |-> None,
     weather_type |-> "Calm",
     weather_duration |-> 2,
     players |-> <<[NewPlayer(authority) EXCEPT !.resources.cannons = 20]>>
                 \o [i \in 1..(MAX_PLAYERS - 1) |->
                        [NewPlayer("default") EXCEPT !.resources = NoResources,
                                                     !.is_active = FALSE]],
     territory_map |-> draft_generate_strategic_map(now)]

\* no check of status, of the caller or of a free slot: writing slot
\* player_count of the four-slot array panics when the array is full
draft_join_game(g, player_pubkey, now) ==
    IF ~(g.player_count < Len(g.players)) THEN Err("IndexOutOfBounds", g)
    ELSE LET g1 == [g EXCEPT !.players[g.player_count + 1] =
                                 [NewPlayer(player_pubkey) EXCEPT !.resources.cannons = 20],
                             !.player_count = @ + 1]
         IN IF g1.player_count >= 2
            THEN Ok(deploy_starting_fleets([g1 EXCEPT !.status = "Active"], now))
            ELSE Ok(g1)

\* the range test compares sqrt(dx^2 + dy^2) with speed, here on the squares
draft_move_ship(g, player_pubkey, ship_id, to_x, to_y, now) ==
    IF get_current_player(g) = 0 THEN Err("NotPlayerTurn", g)
    ELSE IF g.players[get_current_player(g)].pubkey # player_pubkey
    THEN Err("NotPlayerTurn", g)
    ELSE IF ~(to_x < MAP_SIZE /\ to_y < MAP_SIZE) THEN Err("InvalidCoordinate", g)
    ELSE LET mi == get_player_mut(g, player_pubkey)
         IN IF mi = 0 THEN Err("NotPlayerTurn", g)
            ELSE LET si == FirstIndex(g.players[mi].ships,
                                      LAMBDA s : s.id = ship_id /\ s.health > 0)
                 IN IF si = 0 THEN Err("ShipNotFound", g)
                    ELSE LET ship == g.players[mi].ships[si]
                             dx == ship.position_x - to_x
                             dy == ship.position_y - to_y
                         IN IF ~((dx * dx) + (dy * dy) <= ship.speed * ship.speed)
                            THEN Err("ShipsNotInRange", g)
                            ELSE Ok(advance_turn(
                                     [g EXCEPT !.players[mi].ships[si] =
                                         [@ EXCEPT !.position_x = to_x,
                                                   !.position_y = to_y,
                                                   !.last_action_turn = g.turn_number]],
                                     now))

\* territory_map[x][y] of the draft is cell x * MAP_SIZE + y of the model
draft_claim_territory(g, player_pubkey, ship_id, now) ==
    IF get_current_player(g) = 0 THEN Err("NotPlayerTurn", g)
    ELSE IF g.players[get_current_player(g)].pubkey # player_pubkey
    THEN Err("NotPlayerTurn", g)
    ELSE LET mi == get_player_mut(g, player_pubkey)
         IN IF mi = 0 THEN Err("NotPlayerTurn", g)
            ELSE LET si == FirstIndex(g.players[mi].ships,
                                      LAMBDA s : s.id = ship_id /\ s.health > 0)
                 IN IF si = 0 THEN Err("ShipNotFound", g)
                    ELSE LET territory_x == g.players[mi].ships[si].position_x
                             territory_y == g.players[mi].ships[si].position_y
                             index == (territory_x * MAP_SIZE) + territory_y
                             territory == g.territory_map[index + 1]
                             territory_coord == FormatCoord(territory_x, territory_y)
                         IN IF territory.cell_type \in {"Water", "Storm", "Whirlpool"}
                            THEN Err("InvalidCoordinate", g)
                            ELSE IF territory.owner # None
                            THEN Err("PositionOccupied", g)
                            ELSE Ok(advance_turn(
                                     [g EXCEPT
                                        !.players[mi].controlled_territories =
                                            IF \E k \in 1..Len(@) : @[k] = territory_coord
                                            THEN @ ELSE Append(@, territory_coord),
                                        !.territory_map[index + 1].owner = player_pubkey],
                                     now))

\* two creation times; the map of the second has a Reef under a starting
\* position
InitDraft ==
    /\ variant = "draft"
    /\ clock \in {Epoch, Epoch + 3}
    /\ game = draft_create_game("k1", clock)
    /\ last = [op |-> "create_game", err |-> "Ok", was |-> "Waiting"]

DraftJoinGame ==
    /\ variant = "draft"
    /\ game.player_count < DraftPlayers
    /\ Commit("join_game", draft_join_game(game, "k2", clock))

\* every ship of the signer, and a ship nobody has
DraftShipIds(g, c) ==
    {g.players[ij[1]].ships[ij[2]].id :
        ij \in {e \in AllShips(g) : g.players[e[1]].pubkey = c}} \cup {GhostId}

DraftMoveShip ==
    /\ variant = "draft"
    /\ game.turn_number <= DraftTurns
    /\ \E c \in {"k1", "k2"} : \E ship_id \in DraftShipIds(game, c) : 
          \E to \in {<<3, 1>>, <<4, 1>>, <<9, 3>>, <<9, 4>>, <<10, 1>>} :
          Commit("move_ship", draft_move_ship(game, c, ship_id, to[1], to[2], clock))

DraftClaimTerritory ==
    /\ variant = "draft"
    /\ game.turn_number <= DraftTurns
    /\ \E c \in {"k1", "k2"} : \E ship_id \in DraftShipIds(game, c) :
          Commit("claim_territory", draft_claim_territory(game, c, ship_id, clock))

SpecDraft ==
    InitDraft /\ [][DraftJoinGame \/ DraftMoveShip \/ DraftClaimTerritory]_vars

(***************************************************************************)
(* PirateGame::advance_turn on its own: games of one to four players with  *)
(* every combination of is_active flags and every player to move           *)
(***************************************************************************)
TurnSteps == 2

InitTurn ==
    /\ variant = "turn"
    /\ clock = Epoch
    /\ \E n \in 1..MAX_PLAYERS : \E active \in [1..n -> BOOLEAN] : \E index \in 0..(n - 1) :
          game = [create_game("k1") EXCEPT
                     !.status = "Active",
                     !.player_count = n,
                     !.current_player_index = index,
                     !.turn_number = 1,
                     !.players = [i \in 1..n |->
                                     [NewPlayer(KeyOrder[i]) EXCEPT !.is_active = active[i]]]]
    /\ last = [op |-> "start_game", err |-> "Ok", was |-> "Waiting"]

AdvanceTurn ==
    /\ variant = "turn"
    /\ game.turn_number <= TurnSteps
    /\ Commit("advance_turn", Ok(advance_turn(game, clock)))

SpecTurn == InitTurn /\ [][AdvanceTurn]_vars

(***************************************************************************)
(* Shuffle scenario: the loop of generate_game_grid, one iteration a step  *)
(*                                                                         *)
(* game holds the locals of generate_game_grid: grid, rng_state, the loop  *)
(* index i of the iteration made last (grid.len() before the first) and    *)
(* the j it drew.                                                          *)
(***************************************************************************)
InitShuffle ==
    /\ variant = "shuffle"
    /\ clock = Epoch
    /\ \E seed \in {0, 37, 124428, 141821, 2147483647} :
          game = [seed |-> seed, grid |-> UnshuffledGrid(1), rng_state |-> ToU64(seed),
                  i |-> Len(UnshuffledGrid(1)), j |-> 0]
    /\ last = [op |-> "generate_game_grid", err |-> "Ok", was |-> "Waiting"]

\* one iteration of for i in (1..grid.len()).rev()
ShuffleStep ==
    /\ variant = "shuffle"
    /\ game.i > 1
    /\ LET i == game.i - 1
           rng_state == LcgNext(game.rng_state)
           j == U64Mod(rng_state, i + 1)
       IN game' = [game EXCEPT !.rng_state = rng_state, !.i = i, !.j = j,
                               !.grid = Swap(game.grid, i, j)]
    /\ UNCHANGED <<variant, clock, last>>

SpecShuffle == InitShuffle /\ [][ShuffleStep]_vars

(***************************************************************************)
(* End-of-game scenario: the board profile with item effects in between,   *)
(* and the player on turn never kept from picking for ever                 *)
(***************************************************************************)
\* the follow-up of a pick that found an item with an action: the turn has
\* stayed with the picker, who now uses an effect
BoardEffect ==
    /\ variant = "items_board"
    /\ game.status = "Active"
    /\ last.op = "make_move"
    /\ last.err = "Ok"
    /\ game.grid[coordinate_to_grid_index(
                     game.chosen_coordinates[Len(game.chosen_coordinates)]) + 1].kind
          \in {"Grinch", "Pudding", "Present", "Mistletoe", "Tree"}
    /\ \E input \in EffectInputs(game) :
          Commit("execute_item_effect",
                 execute_item_effect(game, input[1], input[2], input[3]))

\* the game of the board profile after create_game
InitBoard == InitItems /\ variant = "items_board"

SpecItemsFair ==
    /\ InitBoard
    /\ [][ItemJoinGame \/ ItemStartGame \/ MakeMove \/ BoardEffect \/ CompleteGame]_vars
    /\ WF_vars(MakeMove /\ last'.err = "Ok")

(***************************************************************************)
(* Claims about the fleet game                                             *)
(***************************************************************************)
\* inputs over which the claims quantify in each reachable state
AnyShipIds(g) ==
    {g.players[ij[1]].ships[ij[2]].id : ij \in AllShips(g)} \cup {GhostId}

AnyCells == {<<2, 1>>, <<4, 1>>, <<5, 1>>, <<0, 7>>, <<10, 1>>}

\* the results of the seven gameplay handlers for one signer, over the inputs
GameplayResults(g, c) ==
    {move_ship(g, c, id, to[1], to[2], clock) : id \in AnyShipIds(g), to \in AnyCells}
    \cup {attack_ship(g, c, a, GhostId, clock) : a \in AnyShipIds(g)}
    \cup {attack_ship(g, c, GhostId, t, clock) : t \in AnyShipIds(g)}
    \cup {claim_territory(g, c, id, clock) : id \in AnyShipIds(g)}
    \cup {collect_resources(g, c, clock)}
    \cup {build_ship(g, c, "Sloop", at[1], at[2], clock) : at \in AnyCells}
    \cup {scan_coordinate(g, c, at[1], at[2], clock) : at \in AnyCells}
    \cup {end_turn(g, c, clock)}

IsOnTurn(g, c) ==
    /\ g.current_player_index < g.player_count
    /\ g.players[g.current_player_index + 1].pubkey = c

\* C1: every gameplay handler of the fleet game answers GameNotActive when
\* the status is not Active and NotPlayerTurn when the signer is not
\* players[current_player_index], and the account is then exactly as before.
C1_GuardRejects ==
    variant \in FleetVariants =>
        \A c \in Keys :
            ~(game.status = "Active" /\ IsOnTurn(game, c)) =>
                \A r \in GameplayResults(game, c) :
                    /\ r.err = (IF game.status # "Active" THEN "GameNotActive"
                                ELSE "NotPlayerTurn")
                    /\ Outcome(game, r) = game

\* a signer who is not on turn has just been turned away from a running game
C1_Witness ==
    /\ variant \in FleetVariants
    /\ game.status = "Active"
    /\ game.turn_number > 1
    /\ last.op \in {"move_ship", "attack_ship", "claim_territory", "collect_resources",
                    "build_ship", "scan_coordinate", "end_turn"}
    /\ last.err = "NotPlayerTurn"

ShipAt(g, e) == g.players[e[1]].ships[e[2]]

CoordsOf(g, i) ==
    {g.players[i].controlled_territories[k] :
        k \in 1..Len(g.players[i].controlled_territories)}

\* C4: every map coordinate is in the controlled_territories of at most one
\* player, and claim_territory by a ship on a cell that already has an owner
\* is rejected.
C4_AtMostOneClaim ==
    variant \in FleetVariants =>
        /\ \A i, j \in 1..Len(game.players) :
              i # j => CoordsOf(game, i) \cap CoordsOf(game, j) = {}
        /\ \A c \in Keys : \A id \in AnyShipIds(game) :
              LET pi == FindPlayer(game, c)
                  si == IF pi = 0 THEN 0 ELSE FindShip(game.players[pi].ships, id)
                  cell == (game.players[pi].ships[si].position_x * MAP_SIZE)
                          + game.players[pi].ships[si].position_y + 1
              IN (si # 0 /\ game.status = "Active" /\ game.territory_map[cell].owner # None)
                    => claim_territory(game, c, id, clock).err # "Ok"

\* C6: no ship with health 0 is in any player's ships list.
C6_NoSunkShip ==
    variant \in FleetVariants =>
        \A e \in AllShips(game) : ShipAt(game, e).health > 0

\* an attack has just destroyed k2's sloop, which is gone from k2's list
C6_Witness ==
    /\ variant = "fleet_combat"
    /\ game.status = "Active"
    /\ last.op = "attack_ship" /\ last.err = "Ok"
    /\ Len(game.players[2].ships) = 1
    /\ game.players[2].ships[1].ship_type = "Frigate"

\* C7: no two ships occupy the same (position_x, position_y).
C7_NoSharedPosition ==
    variant \in FleetVariants =>
        \A e, f \in AllShips(game) :
            e # f => <<ShipAt(game, e).position_x, ShipAt(game, e).position_y>>
                     # <<ShipAt(game, f).position_x, ShipAt(game, f).position_y>>

\* the ships an attack on target id t by signer c reaches: in each other
\* player's list, the first ship with that id
Victims(g, c, t) ==
    {e \in AllShips(g) :
        /\ g.players[e[1]].pubkey # c
        /\ e[2] = FindShip(g.players[e[1]].ships, t)}

\* players with ship e at health h, or without ship e when h = 0
WithHealth(g, e, h) ==
    [i \in 1..Len(g.players) |->
        IF i # e[1] THEN g.players[i]
        ELSE [g.players[i] EXCEPT !.ships =
                 IF h = 0
                 THEN SubSeq(@, 1, e[2] - 1) \o SubSeq(@, e[2] + 1, Len(@))
                 ELSE [@ EXCEPT ![e[2]].health = h]]]

\* C8: a successful attack_ship deals max(1, attack - defense), leaves the
\* target at max(0, health - damage), changes no other ship, and advances
\* the turn.
C8_AttackDamage ==
    variant \in FleetVariants =>
        \A c \in Keys : \A a \in AnyShipIds(game), t \in AnyShipIds(game) :
            LET r == attack_ship(game, c, a, t, clock)
                pi == FindPlayer(game, c)
                attacker == game.players[pi].ships[FindShip(game.players[pi].ships, a)]
                next == (game.current_player_index + 1) % game.player_count
            IN r.err = "Ok" =>
                  /\ Cardinality(Victims(game, c, t)) = 1
                  /\ \A e \in Victims(game, c, t) :
                        LET damage == IF attacker.attack <= ShipAt(game, e).defense THEN 1
                                      ELSE attacker.attack - ShipAt(game, e).defense
                            health == IF ShipAt(game, e).health > damage
                                      THEN ShipAt(game, e).health - damage ELSE 0
                        IN r.game.players = WithHealth(game, e, health)
                  /\ r.game.current_player_index = next
                  /\ r.game.turn_number = game.turn_number + (IF next = 0 THEN 1 ELSE 0)

\* k2's sloop (attack 20) has just hit k1's frigate (defense 25) for 1
C8_Witness ==
    /\ variant = "fleet_combat"
    /\ last.op = "attack_ship" /\ last.err = "Ok"
    /\ game.current_player_index = 0
    /\ \E e \in AllShips(game) :
          /\ ShipAt(game, e).ship_type = "Frigate"
          /\ ShipAt(game, e).health = 199

PriceList ==
    [Sloop |-> SLOOP_COST, Frigate |-> FRIGATE_COST,
     Galleon |-> GALLEON_COST, Flagship |-> FLAGSHIP_COST]

Short(res, cost) ==
    \/ res.gold < cost.gold
    \/ res.crew < cost.crew
    \/ res.cannons < cost.cannons
    \/ res.supplies < cost.supplies

\* C9: build_ship with a resource below the cost is rejected and changes
\* nothing, InsufficientResources is returned only then, a successful build
\* debits every resource by exactly its cost and adds the ship, and no
\* resource counter is ever negative.
C9_BuildAllOrNothing ==
    variant \in FleetVariants =>
        /\ \A i \in 1..Len(game.players) :
              /\ game.players[i].resources.gold >= 0
              /\ game.players[i].resources.crew >= 0
              /\ game.players[i].resources.cannons >= 0
              /\ game.players[i].resources.supplies >= 0
        /\ \A c \in Keys : \A ty \in ShipTypes, at \in AnyCells :
              LET r == build_ship(game, c, ty, at[1], at[2], clock)
                  pi == FindPlayer(game, c)
                  res == game.players[pi].resources
                  cost == PriceList[ty]
              IN /\ (pi # 0 /\ Short(res, cost)) => (r.err # "Ok" /\ r.game = game)
                 /\ r.err = "InsufficientResources" => (Short(res, cost) /\ r.game = game)
                 /\ r.err = "Ok" =>
                       /\ r.game.players[pi].resources =
                             [gold |-> res.gold - cost.gold,
                              crew |-> res.crew - cost.crew,
                              cannons |-> res.cannons - cost.cannons,
                              supplies |-> res.supplies - cost.supplies]
                       /\ Len(r.game.players[pi].ships) = Len(game.players[pi].ships) + 1
                       /\ r.game.players[pi].ships[Len(game.players[pi].ships) + 1].ship_type = ty

\* k1 owns the empty port and has just been refused a ship it cannot pay
C9_Witness ==
    /\ variant = "fleet_build"
    /\ last.op = "build_ship" /\ last.err = "InsufficientResources"
    /\ game.territory_map[(2 * MAP_SIZE) + 1 + 1].owner = "k1"
    /\ game.players[1].resources.gold < FRIGATE_COST.gold

(***************************************************************************)
(* C3: status order                                                        *)
(***************************************************************************)
StatusRank(status) ==
    CASE status = "Waiting" -> 0
      [] status = "Active" -> 1
      [] status = "Completed" -> 2

\* C3 (as stated): no step of create_game, join_game, start_game, the
\* gameplay handlers, check_and_complete_game or reset_game takes the status
\* backwards in the order Waiting, Active, Completed.
C3_NoRegression ==
    [][StatusRank(game'.status) >= StatusRank(game.status)]_vars

\* C3 (amended): the only step that takes the status backwards is a
\* reset_game signed by the authority, and that step always leaves the game
\* Waiting with no players, no map and turn 0; every other step keeps the
\* order Waiting, Active, Completed.
C3_NoRegressionButReset ==
    [][/\ (last'.op = "reset_game" /\ last'.err = "Ok")
          => /\ game'.status = "Waiting"
             /\ game'.players = <<>>
             /\ game'.player_count = 0
             /\ game'.territory_map = <<>>
             /\ game'.turn_number = 0
       /\ ~(last'.op = "reset_game" /\ last'.err = "Ok")
          => StatusRank(game'.status) >= StatusRank(game.status)]_vars

\* the authority has reset a completed game
C3_Witness ==
    /\ last.op = "reset_game"
    /\ last.err = "Ok"
    /\ last.was = "Completed"
    /\ game.status = "Waiting"

(***************************************************************************)
(* C2: turn invariant                                                      *)
(***************************************************************************)
\* C2: while a game is Active, in the fleet game and in the item-catalog
\* game, current_player_index is at least 0 and below the number of players,
\* and the player it names is active.
C2_TurnInvariant ==
    game.status = "Active" =>
        /\ 0 <= game.current_player_index
        /\ game.current_player_index < Len(game.players)
        /\ variant \in FleetVariants =>
              /\ game.player_count = Len(game.players)
              /\ game.current_player_index < game.player_count
        /\ game.players[game.current_player_index + 1].is_active

\* the turn has just passed from the last of three players to the first
C2_Witness ==
    /\ variant \in ItemVariants
    /\ game.status = "Active"
    /\ Len(game.players) = 3
    /\ last.op \in {"make_move", "execute_item_effect"}
    /\ last.err = "Ok"
    /\ game.current_player_index = 0
    /\ game.random_seed % 3 = 2
    /\ Len(game.chosen_coordinates) = 1

(***************************************************************************)
(* C5: one pick per coordinate                                             *)
(***************************************************************************)
\* letter A-G followed by digit 1-7
WellFormed(coordinate) ==
    /\ Len(coordinate) = 2
    /\ coordinate[1] \in {"A", "B", "C", "D", "E", "F", "G"}
    /\ coordinate[2] \in {"1", "2", "3", "4", "5", "6", "7"}

Chosen(g) == {g.chosen_coordinates[i] : i \in 1..Len(g.chosen_coordinates)}

\* coordinates tried in each reachable state: the picked cells, the next cell
\* of the board, the malformed strings and everything already chosen
TriedCoords(g) ==
    PickCoords \cup BadCoords \cup Chosen(g)
    \cup {CoordAt(n) : n \in {k \in 0..(MAX_COORDINATES - 1) : k = Len(g.chosen_coordinates)}}

\* C5: make_move is accepted only for a well-formed coordinate that is not in
\* chosen_coordinates, and then appends exactly that coordinate; a repeat
\* pick by anyone is rejected and changes nothing, with CoordinateTaken when
\* the signer is on turn in an Active game; chosen_coordinates never holds a
\* duplicate or a malformed coordinate, and a Points item adds its value to
\* the picking player once.
C5_PickOnce ==
    variant \in ItemVariants =>
        /\ \A i, j \in 1..Len(game.chosen_coordinates) :
              i # j => game.chosen_coordinates[i] # game.chosen_coordinates[j]
        /\ \A c \in Chosen(game) : WellFormed(c)
        /\ \A player \in {"k1", "k2", "k3"}, coordinate \in TriedCoords(game) :
              LET r == make_move(game, player, coordinate)
                  after == Outcome(game, r)
                  cur == game.current_player_index + 1
                  item == game.grid[coordinate_to_grid_index(coordinate) + 1]
              IN /\ r.err = "Ok" =>
                       /\ WellFormed(coordinate)
                       /\ coordinate \notin Chosen(game)
                       /\ after.chosen_coordinates =
                             Append(game.chosen_coordinates, coordinate)
                       /\ item.kind = "Points" =>
                             after.players[cur].points =
                                game.players[cur].points + item.points
                 /\ r.err # "Ok" => after = game
                 /\ coordinate \in Chosen(game) =>
                       /\ r.err # "Ok"
                       /\ (game.status = "Active"
                           /\ game.players[cur].player_key = player)
                          => r.err = "CoordinateTaken"
                 /\ ~WellFormed(coordinate) => r.err # "Ok"

\* a repeat pick by the player on turn has just been rejected
C5_Witness ==
    /\ variant \in ItemVariants
    /\ last.op = "make_move"
    /\ last.err = "CoordinateTaken"
    /\ Len(game.chosen_coordinates) >= 2

(***************************************************************************)
(* C10: self-targeting                                                     *)
(***************************************************************************)
PointsOf(g) == [i \in 1..Len(g.players) |-> g.players[i].points]

\* what the two implementations return for one call
BothEffects(g, player, action, target_player) ==
    {execute_item_effect(g, player, action, target_player),
     execute_item_effect_lib(g, player, action, target_player)}

\* C10: in both execute_item_effect implementations, a Steal, Swap, Gift or
\* Kill by the player on turn that names the caster as target, or names no
\* target, is rejected and changes no player's points.
C10_SelfTargetRejected ==
    (variant \in ItemVariants /\ game.status = "Active") =>
        LET caster == game.players[Game_get_current_player(game)].player_key
        IN \A action \in TargetedActions, target_player \in {None, caster} :
              \A r \in BothEffects(game, caster, action, target_player) :
                 /\ r.err # "Ok"
                 /\ PointsOf(Outcome(game, r)) = PointsOf(game)

(***************************************************************************)
(* C11: the block flag is resolved first                                   *)
(***************************************************************************)
BlockableActions == {a \in TargetedActions : a.kind \in {"Steal", "Swap", "Kill"}}

\* C11: in both execute_item_effect implementations, an accepted Steal, Swap
\* or Kill whose target has has_elf set clears the target's has_elf, leaves
\* every player's points and banked_points and every has_bauble as they
\* were (the target's too when it was set), leaves the other players'
\* has_elf, and advances the turn by one player.
C11_BlockFirst ==
    (variant \in ItemVariants /\ game.status = "Active") =>
        LET cur == Game_get_current_player(game)
            caster == game.players[cur].player_key
            n == Len(game.players)
        IN \A action \in BlockableActions, target_player \in {None, "k1", "k2", "k3"} :
              \A r \in BothEffects(game, caster, action, target_player) :
                 LET tgt == TargetIndex(game, caster, target_player).tgt
                     after == r.game
                 IN (r.err = "Ok" /\ game.players[tgt].has_elf) =>
                       /\ ~after.players[tgt].has_elf
                       /\ Len(after.players) = n
                       /\ \A i \in 1..n :
                             /\ after.players[i].points = game.players[i].points
                             /\ after.players[i].banked_points =
                                   game.players[i].banked_points
                             /\ after.players[i].has_bauble = game.players[i].has_bauble
                             /\ i # tgt =>
                                   after.players[i].has_elf = game.players[i].has_elf
                       /\ after.current_player_index =
                             (game.current_player_index + 1) % n
                       /\ after.chosen_coordinates = game.chosen_coordinates
                       /\ after.status = game.status

\* the player on turn targets a player holding both flags with Steal(500),
\* and both implementations accept the call, consume the block flag and
\* keep the reflect flag
C11_Witness ==
    /\ variant \in {"items_programs", "items_lib"}
    /\ game.status = "Active"
    /\ \E i \in 1..Len(game.players) :
          /\ game.players[i].has_elf
          /\ game.players[i].has_bauble
          /\ i # Game_get_current_player(game)
          /\ \A r \in BothEffects(game,
                                  game.players[Game_get_current_player(game)].player_key,
                                  [kind |-> "Steal", amount |-> 500, coordinate |-> <<>>],
                                  game.players[i].player_key) :
                /\ r.err = "Ok"
                /\ ~r.game.players[i].has_elf
                /\ r.game.players[i].has_bauble

(***************************************************************************)
(* C12: when the turn advances                                             *)
(***************************************************************************)
FollowUpKinds == {"Grinch", "Pudding", "Present", "Mistletoe", "Tree"}

NextIndex(g) == (g.current_player_index + 1) % Len(g.players)

\* every accepted execute_item_effect, of either implementation, moves the
\* turn to the next player
EffectAdvances(g) ==
    \A input \in EffectInputs(g) :
       \A r \in BothEffects(g, input[1], input[2], input[3]) :
          r.err = "Ok" =>
             /\ r.game.current_player_index = NextIndex(g)
             /\ r.game.current_player_index # g.current_player_index

\* C12 as stated: an accepted make_move leaves current_player_index unchanged
\* exactly when the picked item needs a follow-up and the game is not yet
\* complete, and advances it to (current_player_index + 1) mod player count
\* for every other item; every accepted execute_item_effect advances the
\* turn by one player.
C12_TurnAfterMove ==
    variant \in ItemVariants =>
        /\ \A player \in {"k1", "k2", "k3"}, coordinate \in TriedCoords(game) :
              LET r == make_move(game, player, coordinate)
                  item == game.grid[coordinate_to_grid_index(coordinate) + 1]
              IN r.err = "Ok" =>
                    /\ (r.game.current_player_index = game.current_player_index)
                          <=> (item.kind \in FollowUpKinds /\ r.game.status # "Completed")
                    /\ item.kind \notin FollowUpKinds =>
                          r.game.current_player_index = NextIndex(game)
        /\ game.status = "Active" => EffectAdvances(game)

\* C12, amended: an accepted make_move leaves current_player_index unchanged
\* exactly when the picked item needs a follow-up or the move completes the
\* game (the 49th coordinate), and otherwise advances it to
\* (current_player_index + 1) mod player count; every accepted
\* execute_item_effect advances the turn by one player.
C12_TurnAfterMoveUnlessComplete ==
    variant \in ItemVariants =>
        /\ \A player \in {"k1", "k2", "k3"}, coordinate \in TriedCoords(game) :
              LET r == make_move(game, player, coordinate)
                  item == game.grid[coordinate_to_grid_index(coordinate) + 1]
              IN r.err = "Ok" =>
                    /\ (r.game.current_player_index = game.current_player_index)
                          <=> (item.kind \in FollowUpKinds \/ r.game.status = "Completed")
                    /\ (item.kind \notin FollowUpKinds /\ r.game.status # "Completed") =>
                          r.game.current_player_index = NextIndex(game)
                    /\ r.game.status = "Completed" <=>
                          Len(game.chosen_coordinates) + 1 = MAX_COORDINATES
        /\ game.status = "Active" => EffectAdvances(game)

\* the 49th coordinate, a Points item, has just been picked and the game is
\* Completed with the turn still on the player who picked it
C12_Witness ==
    /\ variant = "items_board"
    /\ last.op = "make_move" /\ last.err = "Ok" /\ last.was = "Active"
    /\ game.status = "Completed"
    /\ Len(game.chosen_coordinates) = MAX_COORDINATES
    /\ game.grid[MAX_COORDINATES].kind = "Points"
    /\ game.chosen_coordinates[MAX_COORDINATES] = CoordAt(MAX_COORDINATES - 1)
    /\ game.players[game.current_player_index + 1].points >= game.grid[MAX_COORDINATES].points

(***************************************************************************)
(* C13: victory check after every action                                   *)
(***************************************************************************)
ActionOps ==
    {"move_ship", "attack_ship", "claim_territory", "collect_resources",
     "build_ship", "scan_coordinate", "end_turn"}

VictoryHolds(g) ==
    \E i \in 1..Len(g.players) : g.players[i].is_active /\ MeetsVictory(g, i)

\* C13: in the fleet game, after every accepted action handler (move, attack,
\* claim, collect, build, scan, end turn), if some active player satisfies a
\* victory condition then status is Completed; and no action is accepted in a
\* state where a victory condition holds.
C13_VictoryCheckedInAction ==
    variant \in FleetVariants =>
        /\ (last.op \in ActionOps /\ last.err = "Ok" /\ VictoryHolds(game))
              => game.status = "Completed"
        /\ VictoryHolds(game) =>
              \A c \in Callers(game) : \A r \in GameplayResults(game, c) : r.err # "Ok"

(***************************************************************************)
(* C14 and C15: who wins                                                   *)
(***************************************************************************)
\* summed health of a player's ships
Health(player) ==
    LET RECURSIVE Sum(_)
        Sum(k) == IF k = 0 THEN 0 ELSE Sum(k - 1) + player.ships[k].health
    IN Sum(Len(player.ships))

Wealth(player) ==
    player.resources.gold + (10 * player.resources.crew)
    + (20 * player.resources.cannons) + (5 * player.resources.supplies)

\* the three conditions as the claim words them
Satisfies(g, i) ==
    LET all == {p \in 1..Len(g.players) : TRUE}
        RECURSIVE Total(_)
        Total(S) == IF S = {} THEN 0
                    ELSE LET p == CHOOSE q \in S : TRUE
                         IN Health(g.players[p]) + Total(S \ {p})
        valuable == Cardinality({c \in 1..Len(g.territory_map) :
                       g.territory_map[c].cell_type \in {"Port", "Island", "Treasure"}})
    IN \/ Health(g.players[i]) * 100 >= 65 * Total(all)
       \/ Len(g.players[i].controlled_territories) * 100 >= 50 * valuable
       \/ Wealth(g.players[i]) >= 10000

\* the account differs from g at most in status and winner
SameButOutcome(after, g) ==
    after = [g EXCEPT !.status = after.status, !.winner = after.winner]

\* C14: check_and_complete_game below the turn ceiling completes the game
\* for the lowest-index active player who has at least 65% of all ship
\* health, or at least 50% of the Port/Island/Treasure cells, or a resource
\* value gold + 10*crew + 20*cannons + 5*supplies of at least 10000; when no
\* active player has any of these, status and winner stay as they were.
C14_FirstToSatisfyWins ==
    (variant \in FleetVariants \cup {"victory"} /\ game.status = "Active"
     /\ game.turn_number < MAX_TURNS) =>
        LET r == check_and_complete_game(game)
            winners == {i \in 1..Len(game.players) :
                           game.players[i].is_active /\ Satisfies(game, i)}
        IN /\ r.err = "Ok"
           /\ SameButOutcome(r.game, game)
           /\ winners = {} => r.game = game
           /\ winners # {} =>
                 /\ r.game.status = "Completed"
                 /\ r.game.winner =
                       game.players[CHOOSE i \in winners : \A j \in winners : i <= j].pubkey

\* k2 has just been made the winner below the turn ceiling while k3 also
\* meets a condition and k1 meets none
C14_Witness ==
    /\ variant = "victory"
    /\ last.op = "check_and_complete_game" /\ last.err = "Ok" /\ last.was = "Active"
    /\ game.status = "Completed"
    /\ game.turn_number < MAX_TURNS
    /\ game.winner = "k2"
    /\ ~Satisfies(game, 1)
    /\ Satisfies(game, 3)

\* the weighted score as the claim words it
Score(player) ==
    (100 * Cardinality({k \in 1..Len(player.ships) : player.ships[k].health > 0}))
    + (2 * Health(player))
    + (150 * Len(player.controlled_territories))
    + Wealth(player)

\* C15: check_and_complete_game at turn_number >= 50 completes the game, and
\* the winner is the active player with the highest score 100*(ships with
\* health > 0) + 2*(summed ship health) + 150*(territories) + resource
\* value; among equal highest scores the earliest in the player list wins.
C15_TimeLimitWinner ==
    (variant \in FleetVariants \cup {"victory"} /\ game.status = "Active"
     /\ game.turn_number >= MAX_TURNS) =>
        LET r == check_and_complete_game(game)
            active == {i \in 1..Len(game.players) : game.players[i].is_active}
            best == {i \in active :
                        \A j \in active : Score(game.players[j]) <= Score(game.players[i])}
        IN /\ r.err = "Ok"
           /\ SameButOutcome(r.game, game)
           /\ r.game.status = "Completed"
           /\ best # {}
           /\ r.game.winner = game.players[CHOOSE i \in best : \A j \in best : i <= j].pubkey

\* at the turn limit k2 and k3 tie for the highest score, above k1, and k2
\* has just been made the winner; no victory condition holds for k2
C15_Witness ==
    /\ variant = "victory"
    /\ last.op = "check_and_complete_game" /\ last.err = "Ok" /\ last.was = "Active"
    /\ game.status = "Completed"
    /\ game.turn_number >= MAX_TURNS
    /\ game.winner = "k2"
    /\ Score(game.players[2]) = Score(game.players[3])
    /\ Score(game.players[1]) < Score(game.players[2])
    /\ ~Satisfies(game, 2)

(***************************************************************************)
(* C16: the last pick completes the game                                   *)
(***************************************************************************)
Total(player) == player.points + player.banked_points

\* the players of maximal points + banked_points
Leaders(g) ==
    {i \in 1..Len(g.players) :
        \A j \in 1..Len(g.players) : Total(g.players[j]) <= Total(g.players[i])}

\* the highest-index player of maximal total
LastLeader(g) == CHOOSE i \in Leaders(g) : \A j \in Leaders(g) : j <= i

\* C16: the make_move that brings chosen_coordinates to 49 entries sets
\* status to Completed in the same step and makes the winner the
\* highest-index player of maximal points + banked_points (determine_winner
\* picks that player in every state); status is Active only while fewer than
\* 49 coordinates are chosen, and complete_game is never accepted.
C16_LastPickCompletes ==
    variant \in ItemVariants =>
        /\ game.status = "Active" => Len(game.chosen_coordinates) < MAX_COORDINATES
        /\ game.status = "Completed" =>
              /\ Len(game.chosen_coordinates) = MAX_COORDINATES
              /\ game.winner = game.players[LastLeader(game)].player_key
        /\ game.players # <<>> => determine_winner(game) + 1 = LastLeader(game)
        /\ complete_game(game).err # "Ok"
        /\ \A player \in {"k1", "k2", "k3"}, coordinate \in TriedCoords(game) :
              LET r == make_move(game, player, coordinate)
              IN (r.err = "Ok" /\ Len(r.game.chosen_coordinates) = MAX_COORDINATES) =>
                    /\ r.game.status = "Completed"
                    /\ r.game.winner = r.game.players[LastLeader(r.game)].player_key
                    /\ r.game.final_scores =
                          [i \in 1..Len(r.game.players) |-> Total(r.game.players[i])]

\* the 49th pick has just completed the game; the winner has the highest
\* total and complete_game is refused
C16_Witness ==
    /\ variant = "items_board"
    /\ last.op = "complete_game" /\ last.err = "GameNotActive" /\ last.was = "Completed"
    /\ game.status = "Completed"
    /\ Len(game.chosen_coordinates) = MAX_COORDINATES
    /\ game.winner \in {"k1", "k2"}
    /\ \A i \in 1..Len(game.players) :
          game.players[i].player_key = game.winner =>
             \A j \in 1..Len(game.players) :
                Total(game.players[j]) <= Total(game.players[i])

(***************************************************************************)
(* C17: the winner                                                         *)
(***************************************************************************)
\* winner is assigned in the step that sets status to Completed, and once
\* assigned it keeps its value
WinnerStep ==
    /\ (game.status # "Completed" /\ game'.status = "Completed") => game'.winner # None
    /\ game.winner # None => game'.winner = game.winner

\* C17 as stated: in both games winner is None whenever status is not
\* Completed, it is assigned in the same step that sets status to Completed,
\* and once assigned no later operation changes or clears it.
C17_WinnerOnce ==
    /\ [](game.status # "Completed" => game.winner = None)
    /\ [][WinnerStep]_vars

\* C17, amended: in both games winner is None whenever status is not
\* Completed and is assigned in the same step that sets status to Completed;
\* once assigned, no operation changes it except an accepted reset_game of
\* the fleet game, which clears it and takes the status back to Waiting.
C17_WinnerOnceButReset ==
    /\ [](game.status # "Completed" => game.winner = None)
    /\ [][IF last'.op = "reset_game" /\ last'.err = "Ok"
          THEN game'.winner = None /\ game'.status = "Waiting"
          ELSE WinnerStep]_vars

\* the authority has just reset a completed game and its winner is gone
C17_Witness ==
    /\ variant = "fleet"
    /\ last.op = "reset_game" /\ last.err = "Ok" /\ last.was = "Completed"
    /\ game.winner = None
    /\ game.turn_number = 0

(***************************************************************************)
(* C18: replay under another clock                                         *)
(***************************************************************************)
\* the clock values a second run of the same instruction may read
ReplayClocks == {clock + 1, clock + 3600}

\* C18: in the fleet game every gameplay instruction gives the same result
\* and the same account (ships and their ids, resources, map owners,
\* current_player_index, turn_number, weather_type, weather_duration) when
\* it is replayed on the same state with the same arguments under a
\* different clock value.
C18_ReplayIgnoresClock ==
    (variant \in FleetVariants /\ game.status = "Active") =>
        \A c \in Callers(game), now \in ReplayClocks :
           /\ end_turn(game, c, now) = end_turn(game, c, clock)
           /\ collect_resources(game, c, now) = collect_resources(game, c, clock)
           /\ \A m \in MoveInputs(game, c) :
                 move_ship(game, c, m[1], m[2], m[3], now)
                    = move_ship(game, c, m[1], m[2], m[3], clock)
           /\ \A a \in AttackInputs(game, c) :
                 attack_ship(game, c, a[1], a[2], now) = attack_ship(game, c, a[1], a[2], clock)
           /\ \A id \in ClaimInputs(game, c) :
                 claim_territory(game, c, id, now) = claim_territory(game, c, id, clock)
           /\ \A b \in BuildInputs(game, c) :
                 build_ship(game, c, b[1], b[2], b[3], now)
                    = build_ship(game, c, b[1], b[2], b[3], clock)
           /\ \A s \in ScanInputs(game, c) :
                 scan_coordinate(game, c, s[1], s[2], now)
                    = scan_coordinate(game, c, s[1], s[2], clock)

(***************************************************************************)
(* C19: the grid and the board                                             *)
(***************************************************************************)
\* the coordinates A1..G7
BoardCoords == {Coord(col, row) : col \in 1..GRID_SIZE, row \in 1..GRID_SIZE}

\* C19: the grid made by generate_game_grid has exactly 49 items (GRID_SIZE
\* x GRID_SIZE = MAX_COORDINATES), the coordinates A1..G7 correspond one to
\* one to its items, so every item can be picked, and the grid stays as
\* create_game made it.
C19_GridMatchesBoard ==
    variant \in ItemVariants =>
        /\ GRID_SIZE * GRID_SIZE = MAX_COORDINATES
        /\ Len(game.grid) = MAX_COORDINATES
        /\ \A c1, c2 \in BoardCoords :
              c1 # c2 => coordinate_to_grid_index(c1) # coordinate_to_grid_index(c2)
        /\ \A k \in 1..Len(game.grid) :
              \E c \in BoardCoords : coordinate_to_grid_index(c) + 1 = k
        /\ game.grid = generate_game_grid(game.random_seed)

(***************************************************************************)
(* C20: ship identifiers                                                   *)
(***************************************************************************)
\* C20: in the fleet game no two ships, of one player or of different
\* players, carry the same id, after deployment and after any build_ship.
C20_UniqueShipIds ==
    variant \in FleetVariants =>
        \A e1, e2 \in AllShips(game) :
           e1 # e2 => ShipAt(game, e1).id # ShipAt(game, e2).id

(***************************************************************************)
(* C21: owned cells                                                        *)
(***************************************************************************)
\* C21: in both claim_territory implementations every cell that carries an
\* owner is an Island, a Port or a Treasure; a Water, Storm, Reef or
\* Whirlpool cell never has an owner.
C21_OwnedCellsClaimable ==
    \A i \in 1..Len(game.territory_map) :
        game.territory_map[i].owner # None
            => game.territory_map[i].cell_type \in {"Island", "Port", "Treasure"}

(***************************************************************************)
(* C22: advance_turn and inactive players                                  *)
(***************************************************************************)
\* the players met going cyclically forward from the one after the current
\* player, as offsets 0 .. player_count - 1 that lead to an active player
ActiveOffsets(g) ==
    {k \in 0..(g.player_count - 1) :
        g.players[((g.current_player_index + 1 + k) % g.player_count) + 1].is_active}

FirstActiveAfter(g) ==
    LET k == CHOOSE k \in ActiveOffsets(g) : \A m \in ActiveOffsets(g) : k <= m
    IN (g.current_player_index + 1 + k) % g.player_count

\* C22: advance_turn returns for every combination of is_active flags, the
\* all-inactive one included, where the loop gives up after player_count
\* skips and is back at (old index + 1) mod player_count; when some player
\* is active, the new current_player_index is the first active player met
\* going cyclically forward from (old index + 1) mod player_count.
C22_SkipsToFirstActive ==
    variant = "turn" =>
        LET after == advance_turn(game, clock)
        IN /\ after.current_player_index \in 0..(game.player_count - 1)
           /\ ActiveOffsets(game) # {}
                 => after.current_player_index = FirstActiveAfter(game)
           /\ ActiveOffsets(game) = {}
                 => after.current_player_index
                       = (game.current_player_index + 1) % game.player_count

\* after an advance_turn that skipped three inactive players (turn 3 is
\* entered from index 0 of turn 2, and only player 0 is active), or after
\* one in a game whose players are all inactive
C22_Witness ==
    /\ variant = "turn"
    /\ last.op = "advance_turn"
    /\ game.player_count = MAX_PLAYERS
    /\ game.current_player_index = 0
    /\ \/ /\ \A i \in 1..game.player_count : game.players[i].is_active <=> i = 1
          /\ game.turn_number = 3
       \/ /\ \A i \in 1..game.player_count : ~game.players[i].is_active
          /\ game.turn_number = 2

(***************************************************************************)
(* C23: the first player to act                                            *)
(***************************************************************************)
\* C23: a start_game, or a join_game that starts the game, leaves
\* current_player_index = seed mod player_count, where seed is the clock
\* value the map of that start is generated from.
C23_FirstPlayerFromSeed ==
    (variant \in FleetVariants /\ game.status = "Waiting") =>
        \A c \in Keys :
            \A r \in {start_game(game, c, clock), join_game(game, c, clock)} :
                (r.err = "Ok" /\ r.game.status = "Active")
                    => r.game.current_player_index = clock % r.game.player_count

(***************************************************************************)
(* C24: moves out of range                                                 *)
(***************************************************************************)
FarCells == {<<3, 3>>, <<5, 1>>, <<4, 1>>, <<0, 7>>, <<9, 9>>, <<2, 2>>}

\* ship e belongs to c and cell to is further from it than its speed
OutOfRange(g, c, e, to) ==
    /\ g.players[e[1]].pubkey = c
    /\ Abs(ShipAt(g, e).position_x - to[1]) + Abs(ShipAt(g, e).position_y - to[2])
          > ShipAt(g, e).speed

\* C24: move_ship to a destination whose Manhattan distance from the ship
\* exceeds the ship's speed is rejected (InvalidCoordinate when the signer is
\* on turn in an Active game), and the ship's position and last_action_turn,
\* current_player_index and turn_number are as before.
C24_FarMoveRejected ==
    variant \in FleetVariants =>
        \A c \in Keys : \A e \in AllShips(game) : \A to \in FarCells :
            OutOfRange(game, c, e, to) =>
                LET r == move_ship(game, c, ShipAt(game, e).id, to[1], to[2], clock)
                    after == Outcome(game, r)
                IN /\ r.err # "Ok"
                   /\ (game.status = "Active" /\ IsOnTurn(game, c))
                         => r.err = "InvalidCoordinate"
                   /\ after.players = game.players
                   /\ after.current_player_index = game.current_player_index
                   /\ after.turn_number = game.turn_number

\* the player on turn has a ship that has acted before and a cell of the map
\* out of its range, diagonally two steps away in each direction
C24_Witness ==
    /\ variant \in FleetVariants
    /\ game.status = "Active"
    /\ \E c \in Keys : \E e \in AllShips(game) :
          /\ IsOnTurn(game, c)
          /\ OutOfRange(game, c, e, <<3, 3>>)
          /\ ShipAt(game, e).position_x = 1
          /\ ShipAt(game, e).position_y = 1
          /\ game.turn_number > 1
          /\ move_ship(game, c, ShipAt(game, e).id, 3, 3, clock).err = "InvalidCoordinate"

(***************************************************************************)
(* C25: attacks that are rejected                                          *)
(***************************************************************************)
\* ids of the ships of c, and of the ships of everybody else
FleetIds(g, c) ==
    {ShipAt(g, e).id : e \in {e \in AllShips(g) : g.players[e[1]].pubkey = c}}

OtherIds(g, c) ==
    {ShipAt(g, e).id : e \in {e \in AllShips(g) : g.players[e[1]].pubkey # c}}

\* some ship a of c and some ship t of another player are more than one step
\* apart; ids are looked up as the handler does, first match in each fleet
Apart(g, c, a, t) ==
    \E e \in Victims(g, c, t) :
        LET pi == FindPlayer(g, c)
            attacker == g.players[pi].ships[FindShip(g.players[pi].ships, a)]
        IN Abs(attacker.position_x - ShipAt(g, e).position_x)
           + Abs(attacker.position_y - ShipAt(g, e).position_y) > 1

\* C25: attack_ship by the player on turn is rejected and the account
\* unchanged (no health change, no ship removed, no turn advance) when the
\* attacker id is not a ship of the signer (ShipNotFound), when the target id
\* is a ship of the signer or of nobody (ShipNotFound), and when attacker and
\* target are more than one step apart (ShipsNotInRange).
C25_BadAttackRejected ==
    (variant \in FleetVariants /\ game.status = "Active") =>
        \A c \in {k \in Keys : IsOnTurn(game, k)} :
            \A a \in AnyShipIds(game) : \A t \in AnyShipIds(game) :
                LET r == attack_ship(game, c, a, t, clock)
                IN /\ a \notin FleetIds(game, c) => r.err = "ShipNotFound"
                   /\ (a \in FleetIds(game, c) /\ t \notin OtherIds(game, c))
                         => r.err = "ShipNotFound"
                   /\ (a \in FleetIds(game, c) /\ t \in OtherIds(game, c)
                       /\ Apart(game, c, a, t))
                         => r.err = "ShipsNotInRange"
                   /\ r.err # "Ok" => Outcome(game, r) = game

\* the player on turn has a ship next to one enemy ship and far from another,
\* so that the three rejections and an accepted attack are all at hand
C25_Witness ==
    /\ variant \in FleetVariants
    /\ game.status = "Active"
    /\ \E c \in Keys : \E a \in FleetIds(game, c) : \E t, u \in OtherIds(game, c) :
          /\ IsOnTurn(game, c)
          /\ attack_ship(game, c, a, t, clock).err = "ShipsNotInRange"
          /\ attack_ship(game, c, a, u, clock).err = "Ok"
          /\ attack_ship(game, c, a, a, clock).err = "ShipNotFound"
          /\ attack_ship(game, c, t, u, clock).err = "ShipNotFound"

(***************************************************************************)
(* C26: what collect_resources adds                                        *)
(***************************************************************************)
\* the cells of one type whose coordinate player i controls
ControlledOfType(g, i, cell_type) ==
    {xy \in (0..(MAP_SIZE - 1)) \X (0..(MAP_SIZE - 1)) :
        /\ g.territory_map[(xy[1] * MAP_SIZE) + xy[2] + 1].cell_type = cell_type
        /\ FormatCoord(xy[1], xy[2]) \in CoordsOf(g, i)}

C28_PlayersWellCounted ==
    variant \in FleetVariants =>
        /\ \A c \in Keys :
              /\ join_game(game, c, clock).err = "Ok"
                    => /\ game.status = "Waiting"
                       /\ game.player_count < MAX_PLAYERS
                       /\ \A i \in 1..Len(game.players) : game.players[i].pubkey # c
              /\ start_game(game, c, clock).err = "Ok"
                    => /\ game.status = "Waiting"
                       /\ game.player_count >= MIN_PLAYERS
        /\ game.player_count = Len(game.players)
        /\ game.player_count <= MAX_PLAYERS
        /\ \A i, j \in 1..Len(game.players) :
              game.players[i].pubkey = game.players[j].pubkey => i = j
        /\ game.status = "Active"
              => (MIN_PLAYERS <= game.player_count /\ game.player_count <= MAX_PLAYERS)

\* a full game, started by the fourth join, that a player who is in tries to
\* join again
C28_Witness ==
    /\ variant \in FleetVariants
    /\ game.status = "Active"
    /\ game.player_count = MAX_PLAYERS
    /\ last.op = "join_game"
    /\ last.err = "Ok"
    /\ join_game(game, "k1", clock).err = "GameNotJoinable"

(***************************************************************************)
(* C29: effects without a pick                                             *)
(***************************************************************************)
\* C29: execute_item_effect succeeds only for a player whose pick, the last
\* coordinate chosen, resolved to a follow-up item (Grinch, Pudding, Present,
\* Mistletoe or Tree); a player on turn who has picked no such item cannot
\* run Steal, Swap, Gift or Kill.
C29_EffectNeedsPick ==
    (variant \in ItemVariants /\ game.status = "Active") =>
        LET caster == game.players[Game_get_current_player(game)].player_key
            picks == Len(game.chosen_coordinates)
        IN \A action \in TargetedActions, target_player \in {"k1", "k2", "k3"} :
              \A r \in BothEffects(game, caster, action, target_player) :
                 r.err = "Ok" =>
                    /\ picks > 0
                    /\ last.op = "make_move"
                    /\ game.grid[coordinate_to_grid_index(
                           game.chosen_coordinates[picks]) + 1].kind \in FollowUpKinds

(***************************************************************************)
(* C30: one pick per turn                                                  *)
(***************************************************************************)
\* C30: at most one coordinate is added to chosen_coordinates between two
\* changes of current_player_index: right after a pick that resolved to a
\* follow-up item, which leaves the turn with the same player, that player
\* cannot pick another coordinate.
C30_OnePickPerTurn ==
    (/\ variant \in ItemVariants
     /\ game.status = "Active"
     /\ last.op = "make_move"
     /\ last.err = "Ok"
     /\ game.chosen_coordinates # <<>>) =>
        LET picks == Len(game.chosen_coordinates)
            item == game.grid[coordinate_to_grid_index(game.chosen_coordinates[picks]) + 1]
            current == game.players[Game_get_current_player(game)].player_key
        IN item.kind \in FollowUpKinds =>
              \A coordinate \in TriedCoords(game) :
                  make_move(game, current, coordinate).err # "Ok"

(***************************************************************************)
(* C31: a victory condition at the turn ceiling                            *)
(***************************************************************************)
\* C31: when check_and_complete_game runs at turn_number >= MAX_TURNS while
\* some active player meets the fleet, territory or economic condition, the
\* winner is the lowest-index such player, not the highest weighted scorer.
C31_ConditionBeforeScore ==
    (variant = "victory" /\ game.status = "Active" /\ game.turn_number >= MAX_TURNS) =>
        LET winners == {i \in 1..Len(game.players) :
                           game.players[i].is_active /\ Satisfies(game, i)}
        IN winners # {} =>
              check_and_complete_game(game).game.winner
                 = game.players[CHOOSE i \in winners : \A j \in winners : i <= j].pubkey

Reflectors(g) ==
    {t \in 1..Len(g.players) :
        /\ t # Game_get_current_player(g)
        /\ g.players[t].has_bauble
        /\ ~g.players[t].has_elf}

\* C33: in both execute_item_effect implementations, when the target holds
\* has_bauble and not has_elf, the flag is cleared and the effect falls on the
\* caster: Steal(a) moves min(a, caster.points) from the caster to the target,
\* and Kill sets the caster's points to 0 and leaves the target's unchanged.
C33_ReflectedOntoCaster ==
    (variant \in ItemVariants /\ game.status = "Active") =>
        LET cur == Game_get_current_player(game)
            caster == game.players[cur]
        IN \A t \in Reflectors(game) : \A action \in TargetedActions :
              action.kind \in {"Steal", "Kill"} =>
                 \A r \in BothEffects(game, caster.player_key, action,
                                      game.players[t].player_key) :
                    LET moved == IF action.kind = "Steal"
                                 THEN Min2(action.amount, caster.points)
                                 ELSE 0
                    IN /\ r.err = "Ok"
                       /\ ~r.game.players[t].has_bauble
                       /\ r.game.players[t].points = game.players[t].points + moved
                       /\ r.game.players[cur].points =
                             (IF action.kind = "Steal" THEN caster.points - moved ELSE 0)


(***************************************************************************)
(* C34: a Gift the caster cannot afford                                    *)
(***************************************************************************)
\* C34: in both execute_item_effect implementations, a Gift by a caster with
\* fewer than GIFT_AMOUNT points is rejected with NotEnoughPoints: no points
\* move and the turn does not advance.
C34_PoorGiftRejected ==
    (variant \in ItemVariants /\ game.status = "Active") =>
        LET cur == Game_get_current_player(game)
            caster == game.players[cur]
        IN caster.points < GIFT_AMOUNT =>
              \A t \in 1..Len(game.players) :
                 t # cur =>
                    \A r \in BothEffects(game, caster.player_key,
                                         [kind |-> "Gift", amount |-> 0, coordinate |-> <<>>],
                                         game.players[t].player_key) :
                       /\ r.err = "NotEnoughPoints"
                       /\ PointsOf(Outcome(game, r)) = PointsOf(game)
                       /\ Outcome(game, r).current_player_index = game.current_player_index


(***************************************************************************)
(* C35: conservation of points                                             *)
(***************************************************************************)
\* C35: Steal, Swap and Gift of execute_item_effect.rs leave the sum of all
\* players' points unchanged and no player below 0; an unblocked, unreflected
\* Steal(a) moves exactly min(a, target.points) from the target to the
\* caster, and a successful Gift moves exactly 1000 from the caster to the
\* target.
C35_PointsConserved ==
    (variant \in ItemVariants /\ game.status = "Active") =>
        LET cur == Game_get_current_player(game)
            caster == game.players[cur]
        IN \A action \in TargetedActions, target_player \in {None, "k1", "k2", "k3"} :
              action.kind # "Kill" =>
                 LET r == execute_item_effect(game, caster.player_key, action, target_player)
                     after == Outcome(game, r)
                     tgt == get_player_index(game, target_player) + 1
                 IN /\ SumSeq(PointsOf(after)) = SumSeq(PointsOf(game))
                    /\ \A i \in 1..Len(after.players) : after.players[i].points >= 0
                    /\ (/\ r.err = "Ok"
                        /\ action.kind = "Steal"
                        /\ ~game.players[tgt].has_elf
                        /\ ~game.players[tgt].has_bauble) =>
                          LET moved == Min2(action.amount, game.players[tgt].points)
                          IN /\ after.players[tgt].points = game.players[tgt].points - moved
                             /\ after.players[cur].points = caster.points + moved
                    /\ (r.err = "Ok" /\ action.kind = "Gift") =>
                          /\ after.players[cur].points = caster.points - GIFT_AMOUNT
                          /\ after.players[tgt].points = game.players[tgt].points + GIFT_AMOUNT

\* a steal of 500 from 1000 has happened
C35_Witness ==
    /\ variant = "items_programs"
    /\ last.op = "execute_item_effect"
    /\ last.err = "Ok"
    /\ \E i, j \in 1..Len(game.players) :
          i # j /\ game.players[i].points = 500 /\ game.players[j].points = 500


(***************************************************************************)
(* C36: banked points                                                      *)
(***************************************************************************)
\* the item under the coordinate picked last
LastPicked(g) ==
    g.grid[coordinate_to_grid_index(g.chosen_coordinates[Len(g.chosen_coordinates)]) + 1]

BankedOf(g) == [i \in 1..Len(g.players) |-> g.players[i].banked_points]

\* C36: over make_move and execute_item_effect no player's banked_points
\* decreases, and it changes only by that player's own pick of a Bank, which
\* adds the player's points to banked_points and sets points to 0.
C36_BankedOnlyGrows ==
    [][(variant \in ItemVariants /\ last'.op \in {"make_move", "execute_item_effect"}) =>
          /\ (game.status = "Active" /\ SumSeq(BankedOf(game)) > 0) =>
                \A action \in TargetedActions, target_player \in {"k1", "k2", "k3"} :
                   \A r \in BothEffects(game,
                                        game.players[Game_get_current_player(game)].player_key,
                                        action, target_player) :
                      BankedOf(Outcome(game, r)) = BankedOf(game)
          /\ \A i \in 1..Len(game.players) :
                LET before == game.players[i]
                    after == game'.players[i]
                IN /\ after.banked_points >= before.banked_points
                   /\ after.banked_points # before.banked_points =>
                         /\ last'.op = "make_move"
                         /\ last'.err = "Ok"
                         /\ i = game.current_player_index + 1
                         /\ LastPicked(game').kind = "Bank"
                         /\ after.banked_points = before.banked_points + before.points
                         /\ after.points = 0]_vars

\* a pick of a Bank has just banked a player's points
C36_Witness ==
    /\ variant \in ItemVariants
    /\ last.op = "make_move"
    /\ last.err = "Ok"
    /\ Len(game.chosen_coordinates) > 0
    /\ LastPicked(game).kind = "Bank"
    /\ \E i \in 1..Len(game.players) :
          game.players[i].banked_points > 0 /\ game.players[i].points = 0


(***************************************************************************)
(* C37: the shuffle is a permutation                                       *)
(***************************************************************************)
\* how often item x occurs in grid
Occurrences(grid, x) == Cardinality({k \in 1..Len(grid) : grid[k] = x})

SameItems(a, b) ==
    /\ Len(a) = Len(b)
    /\ \A k \in 1..Len(b) : Occurrences(a, b[k]) = Occurrences(b, b[k])

\* C37: at every iteration of the shuffle of generate_game_grid, j lies in
\* 0..i and the grid holds the items of ITEM_DISTRIBUTION, each as often as
\* the table says; the LCG state advances once per swap, so that after the
\* last iteration the grid is the one generate_game_grid returns.
C37_ShuffleIsPermutation ==
    variant = "shuffle" =>
        /\ game.j \in 0..game.i
        /\ SameItems(game.grid, UnshuffledGrid(1))
        /\ game.i = 1 => game.grid = generate_game_grid(game.seed)

\* the loop has run to its end and moved the first item of the table
C37_Witness ==
    /\ variant = "shuffle"
    /\ game.i = 1
    /\ game.grid # UnshuffledGrid(1)
    /\ game.grid[1] # UnshuffledGrid(1)[1]


(***************************************************************************)
(* C38: cell owners and controlled territories                             *)
(***************************************************************************)
\* C38: in the fleet game, for every coordinate and every player the cell's
\* owner is the player exactly when the coordinate is in the player's
\* controlled_territories, and no controlled_territories holds a coordinate
\* twice.
C38_OwnerMatchesControlled ==
    variant \in FleetVariants =>
        \A i \in 1..Len(game.players) :
           LET p == game.players[i]
               held == p.controlled_territories
           IN /\ \A a, b \in 1..Len(held) : held[a] = held[b] => a = b
              /\ \A x, y \in 0..(MAP_SIZE - 1) :
                    (x * MAP_SIZE) + y + 1 <= Len(game.territory_map) =>
                       (game.territory_map[(x * MAP_SIZE) + y + 1].owner = p.pubkey
                          <=> \E k \in 1..Len(held) : held[k] = FormatCoord(x, y))


(***************************************************************************)
(* C39: weather                                                            *)
(***************************************************************************)
\* a step of a started game that advanced the turn to player index 0
TurnWrapped ==
    /\ game.status = "Active"
    /\ game'.turn_number = game.turn_number + 1
    /\ game'.current_player_index = 0
    /\ last'.err = "Ok"

WeatherRanOut == game.weather_duration <= 1

WeatherStep ==
    /\ game.weather_duration \in 1..3
    /\ game'.weather_duration \in 1..3
    /\ game'.weather_type # game.weather_type => (TurnWrapped /\ WeatherRanOut)
    /\ (TurnWrapped /\ WeatherRanOut) =>
          game'.weather_duration =
             (IF game'.weather_type \in {"Calm", "Storm"} THEN 2 ELSE 3)
    /\ (TurnWrapped /\ ~WeatherRanOut) =>
          game'.weather_duration = game.weather_duration - 1
    /\ ~TurnWrapped => game'.weather_duration = game.weather_duration

Unchosen(g) == {CoordAt(n) : n \in 0..(MAX_COORDINATES - 1)} \ Chosen(g)

\* in an Active state cells are left, and the player on turn may pick any
CanPick ==
    (variant = "items_board" /\ game.status = "Active") =>
        /\ Unchosen(game) # {}
        /\ \A coordinate \in Unchosen(game) :
              make_move(game, game.players[Game_get_current_player(game)].player_key,
                        coordinate).err = "Ok"

\* a successful make_move adds one coordinate, nothing else changes the
\* list, and it never holds more than MAX_COORDINATES
PickGrows ==
    /\ Len(game'.chosen_coordinates) <= MAX_COORDINATES
    /\ IF last'.op = "make_move" /\ last'.err = "Ok"
       THEN /\ Len(game'.chosen_coordinates) = Len(game.chosen_coordinates) + 1
            /\ Chosen(game) \subseteq Chosen(game')
            /\ Chosen(game') # Chosen(game)
       ELSE game'.chosen_coordinates = game.chosen_coordinates

\* C40: the item-catalog game cannot get stuck and always ends: in every
\* Active state the player on turn can pick any unchosen coordinate, every
\* successful make_move strictly grows chosen_coordinates, at most 49 succeed
\* in a game, and if the player on turn is never kept from picking for ever
\* an Active game reaches Completed.
C40_GameEnds ==
    /\ []CanPick
    /\ [][PickGrows]_vars
    /\ (game.status = "Active") ~> (game.status = "Completed")

\* the 49th pick has completed the game
C40_Witness ==
    /\ variant = "items_board"
    /\ game.status = "Completed"
    /\ last.op = "make_move"
    /\ last.err = "Ok"
    /\ last.was = "Active"
    /\ Len(game.chosen_coordinates) = MAX_COORDINATES

=============================================================================
